---- MODULE Spec2Model ----
(***************************************************************************)
(* Publish-orchestration subsystem of AutoPublisherAI.                     *)
(*                                                                         *)
(*  - SpecWorkflow: the orchestrator's generate_and_publish Celery task,   *)
(*    the result backend it writes to and the status query that reads it.  *)
(*  - SpecPublish: the publishing service's publish endpoint, the          *)
(*    publishers' publish method and BasePublisher.retry_publish.          *)
(*  - SpecLifecycle: the task of SpecWorkflow together with               *)
(*    cancel_workflow, worker loss, the time limit, an unreachable         *)
(*    backend and result expiry.                                           *)
(*  - SpecConcurrent: two calls of retry_publish interleaved on one        *)
(*    publisher instance.                                                  *)
(*  - SpecBulk: the orchestrator's execute_bulk_workflows endpoint.        *)
(*  - SpecFactory: PublisherFactory.create_publisher and the publishers'   *)
(*    constructors.                                                        *)
(*  - SpecAttempt: one invocation of a publisher's publish method.         *)
(*  - SpecBulkPublish: the publishing service's bulk_publish endpoint.     *)
(*  - SpecPlatforms: validate_credentials and the get_platform_status      *)
(*    endpoint against a remote API whose state changes.                   *)
(*  - SpecCaption: the property InstagramPostData.full_caption.            *)
(*  - SpecWordPress: one invocation of WordPressPublisher.publish with     *)
(*    a featured image, categories and tags.                               *)
(*  - SpecTracker: the content service's in-memory task tracker, its       *)
(*    background function and delete_task.                                 *)
(*  - SpecRateLimit: RateLimiter.check_rate_limit called by several        *)
(*    instances against one Redis.                                         *)
(*                                                                         *)
(* Python values are records over strings; the string "None" stands for    *)
(* Python's None in optional fields.                                       *)
(***************************************************************************)
EXTENDS Integers, Sequences, FiniteSets, TLC

\* ------------------------------------------------------------------ bounds
\* Longest list of publishing targets in one WorkflowRequest.
MaxTargets == 3
\* Largest max_attempts handed to retry_publish.
MaxAttemptsCap == 3
\* How many workers may die while running one task.
MaxWorkerLosses == 1
\* Longest list of publishing targets where workers and the backend misbehave.
MaxLifecycleTargets == 2
\* Longest list of workflows in one BulkWorkflowRequest.
MaxBulk == 3
\* Longest list of publications in one BulkPublicationRequest.
MaxBulkPublications == 3
\* How many validate_credentials calls and remote changes happen besides
\* those of one GET platforms.
MaxValidateEvents == 3
\* Longest list of hashtags of one InstagramPostData.
MaxHashtags == 2
\* How far below the limit the long captions start.
MaxCaptionSlack == 5
\* How many tasks POST generate-async creates.
MaxTasks == 3
\* Largest rate a RateLimiter is built with.
MaxRate == 2
\* How many requests of one client reach the instances.
MaxRequests == 4

VARIABLES
    \* ---- orchestrator service
    workflow_data,        \* the dict handed to generate_and_publish.apply_async
    wf_pc,                \* position of the task body
    gen_outcome,          \* what the content service did for this task
    content_result,       \* local of generate_and_publish
    target_idx,           \* index of the next target of the publishing loop
    publishing_results,   \* local of generate_and_publish
    publish_sync_calls,   \* target indices publish_content_sync was called for
    http_publish_calls,   \* target indices a POST to the publishing service was issued for
    backend_state,        \* Celery result backend: state of the task
    backend_meta,         \* Celery result backend: meta of a PROGRESS state
    backend_result,       \* Celery result backend: return value of the task
    status_response,      \* body of the last GET status/{workflow_id} answer
    status_query_pc,      \* position of the task when that answer was built
    \* ---- publishing service
    request,              \* the PublicationRequest of the publish endpoint
    configured,           \* platforms whose settings.*_configured is true
    WORDPRESS_URL,        \* settings.WORDPRESS_URL, a sequence of characters
    rp_pc,                \* position of publish_content / retry_publish
    max_attempts,         \* parameter of retry_publish
    delay,                \* parameter of retry_publish
    attempt,              \* loop variable of retry_publish
    last_error,           \* local of retry_publish
    publish_log,          \* one entry per invocation of publisher.publish
    sleeps,               \* arguments of the asyncio.sleep calls of retry_publish
    uuid_next,            \* number of uuid4 values drawn so far
    endpoint_result,      \* what publish_content answered
    \* ---- task queue and workers
    revoke_sent,          \* cancel_workflow has broadcast a revoke for the task
    executions,           \* how many times a worker entered the task body
    worker_losses,        \* how many workers died while running the task
    \* ---- two retry_publish calls on one publisher instance
    shared_publisher,     \* class of the publisher instance both calls run on
    cc_request,           \* per call: parameter request
    cc_max_attempts,      \* per call: parameter max_attempts
    cc_pc,                \* per call: position of retry_publish
    cc_attempt,           \* per frame: loop variable attempt
    cc_last_error,        \* per frame: local last_error
    cc_log,               \* per call: one entry per invocation of self.publish
    cc_result,            \* per call: the response retry_publish returned
    \* ---- bulk submission
    bulk_request,         \* the BulkWorkflowRequest of execute_bulk_workflows
    bulk_pc,              \* position of execute_bulk_workflows
    bulk_idx,             \* index of the next entry of request.workflows
    task_queue,           \* the task messages apply_async has enqueued, in order
    bulk_workflows,       \* local workflows of execute_bulk_workflows
    bulk_response,        \* what execute_bulk_workflows answered
    \* ---- publishing service: bulk_publish
    bulk_publish_request, \* the BulkPublicationRequest of bulk_publish
    bp_pc,                \* position of bulk_publish
    bp_idx,               \* index of the next entry of request.publications
    bp_results,           \* local results of bulk_publish
    bp_successful,        \* local successful of bulk_publish
    bp_failed,            \* local failed of bulk_publish
    retry_publish_calls,  \* indices of the publications retry_publish was called for
    bulk_publish_response,\* what bulk_publish answered
    \* ---- publishing service: PublisherFactory.create_publisher
    fc_platform,          \* parameter platform
    fc_config,            \* parameter config
    fc_result,            \* what the call returned or raised
    \* ---- publishing service: one invocation of publish
    at_publisher,         \* class of the publisher publish is invoked on
    at_request,           \* parameter request
    at_remote,            \* what the remote platform does during the attempt
    at_outcome,           \* what publish returned or raised
    \* ---- publishing service: validate_credentials and GET platforms
    remote_credentials,   \* per platform: what the remote API makes of the credentials
    validate_log,         \* validate_credentials calls and remote changes, in order
    platform_statuses,    \* what get_platform_status answered
    \* ---- InstagramPostData.full_caption
    caption,              \* field caption
    hashtags,             \* field hashtags
    full_caption_result,  \* value of the property full_caption
    \* ---- publishing service: WordPress categories and tags
    wp_categories,        \* field categories of the request's WordPressPostData
    wp_tags,              \* field tags of the request's WordPressPostData
    wp_terms,             \* what the remote site does for each term name
    \* ---- orchestrator service: what the publishing service answered
    service_answers,      \* per POST to the publishing service: target index and answer
    \* ---- content service: in-memory task tracker
    tasks,                \* the module-level dict tasks
    tasks_created,        \* number of task ids drawn so far
    bg_pc,                \* per task: position of _generate_article_background
    bg_unhandled,         \* per task: the exception that left the background function
    deleted_ids,          \* the task ids delete_task has removed
    \* ---- rate limiter
    rl_rate,              \* the rate check_rate_limit enforces
    redis_key,            \* the Redis counter key of one client and one endpoint
    rl_pc,                \* per instance: position of check_rate_limit
    rl_current,           \* per instance: local current
    rl_requests,          \* number of requests received so far
    rl_admitted,          \* requests let through since the key last expired
    rl_rejected           \* requests answered 429

wfVars == <<workflow_data, wf_pc, gen_outcome, content_result, target_idx,
            publishing_results, publish_sync_calls, http_publish_calls,
            backend_state, backend_meta, backend_result, status_response,
            status_query_pc>>

rpVars == <<request, configured, WORDPRESS_URL, rp_pc, max_attempts, delay, attempt, last_error,
            publish_log, sleeps, uuid_next, endpoint_result>>

lcVars == <<revoke_sent, executions, worker_losses>>

ccVars == <<shared_publisher, cc_request, cc_max_attempts, cc_pc, cc_attempt,
            cc_last_error, cc_log, cc_result>>

bkVars == <<bulk_request, bulk_pc, bulk_idx, task_queue, bulk_workflows, bulk_response>>

bpVars == <<bulk_publish_request, bp_pc, bp_idx, bp_results, bp_successful, bp_failed,
            retry_publish_calls, bulk_publish_response>>

fcVars == <<fc_platform, fc_config, fc_result>>

atVars == <<at_publisher, at_request, at_remote, at_outcome>>

psVars == <<remote_credentials, validate_log, platform_statuses>>

capVars == <<caption, hashtags, full_caption_result>>

tmVars == <<wp_categories, wp_tags, wp_terms>>

saVars == <<service_answers>>

tkVars == <<tasks, tasks_created, bg_pc, bg_unhandled, deleted_ids>>

rlVars == <<rl_rate, redis_key, rl_pc, rl_current, rl_requests, rl_admitted, rl_rejected>>

\* The parts the workflow task has no tie to.
farVars == <<tmVars, tkVars, rlVars>>

extVars == <<farVars, saVars>>

svcVars == <<bpVars, fcVars, atVars, psVars, capVars, extVars>>

vars == <<wfVars, rpVars, lcVars, ccVars, bkVars, svcVars>>

\* ================================================================== values

\* PublishingTarget.platform is a free string; "facebook" stands for every
\* platform publish_content_sync has no branch for.
TargetPlatforms == {"wordpress", "instagram", "facebook"}

\* PublishingTarget.model_dump(): the platform key is always present.
Targets == {[platform |-> p] : p \in TargetPlatforms}

TargetLists == UNION {[1..n -> Targets] : n \in 1..MaxTargets}

LifecycleTargetLists == UNION {[1..n -> Targets] : n \in 1..MaxLifecycleTargets}

\* What the content service can do with POST /api/v1/content/generate.
GenOutcomes == {"ok", "ok_no_image", "error_payload", "empty", "null",
                "http_status_error", "exception"}

PyNone == [py |-> "None", keys |-> {}, error |-> "None", title |-> "None",
           word_count |-> "None", featured_image |-> "None"]

PyDict(keys, error, title, word_count, featured_image) ==
    [py |-> "dict", keys |-> keys, error |-> error, title |-> title,
     word_count |-> word_count, featured_image |-> featured_image]

ErrorDict(msg) == PyDict({"error"}, msg, "None", "None", "None")

\* ======================================================= orchestrator task

\* generate_content_sync: the POST to the content service and its handlers.
generate_content_sync(outcome) ==
    CASE outcome = "ok" ->
            PyDict({"title", "word_count", "featured_image"}, "None", "T", "500", "dict")
      [] outcome = "ok_no_image" ->
            PyDict({"title", "word_count", "featured_image"}, "None", "T", "500", "null")
      [] outcome = "error_payload" -> ErrorDict("generation failed")
      [] outcome = "empty" -> PyDict({}, "None", "None", "None", "None")
      [] outcome = "null" -> PyNone
      [] outcome = "http_status_error" -> ErrorDict("HTTP 500: Internal Server Error")
      [] OTHER -> ErrorDict("connection refused")

\* Python truthiness of the value response.json() gave.
Falsy(v) == v.py = "None" \/ (v.py = "dict" /\ v.keys = {})

\* The check of line 51 without its "not content_result" half.
ContentRejected_ErrorKeyOnly(v) == v.py = "dict" /\ "error" \in v.keys

\* workflow.py line 51: not content_result or 'error' in content_result
ContentRejected(v) == Falsy(v) \/ "error" \in v.keys

\* workflow.py line 52: the message of the exception that reaches the outer
\* handler; content_result.get on None raises AttributeError instead.
ContentFailureMessage(v) ==
    IF v.py = "None"
    THEN "'NoneType' object has no attribute 'get'"
    ELSE "Content generation failed: "
            \o (IF "error" \in v.keys THEN v.error ELSE "Unknown error")

NoResult == [keys |-> {}, status |-> "None", content |-> PyNone,
             publishing_results |-> <<>>, error_message |-> "None"]

\* workflow.py lines 89-95
CompletedResult(content, results) ==
    [keys |-> {"workflow_id", "status", "content", "publishing_results", "completed_at"},
     status |-> "completed", content |-> content,
     publishing_results |-> results, error_message |-> "None"]

\* The failed dict with the results gathered so far left in.
FailedResult_WithResults(msg) ==
    [keys |-> {"workflow_id", "status", "publishing_results", "error_message"},
     status |-> "failed", content |-> PyNone,
     publishing_results |-> <<>>, error_message |-> msg]

\* workflow.py lines 99-103
FailedResult(msg) ==
    [keys |-> {"workflow_id", "status", "error_message"},
     status |-> "failed", content |-> PyNone,
     publishing_results |-> <<>>, error_message |-> msg]

NoMeta == [progress |-> 0, step |-> "None"]

Meta(p, s) == [progress |-> p, step |-> s]

\* ------------------------------------------------------ publish_content_sync

NoEntry == [platform |-> "None", success |-> FALSE, post_id |-> "None",
            post_url |-> "None", error_message |-> "None"]

\* The three-key failure dicts of workflow.py lines 72-76, 205-209, 233-237, 240-244.
FailureEntry(platform, msg) ==
    [platform |-> platform, success |-> FALSE, post_id |-> "None",
     post_url |-> "None", error_message |-> msg]

\* What the publishing service's POST /api/v1/publish/publish can answer, and
\* "raised": an exception that leaves publish_content_sync because it strikes
\* inside one of its handlers (the worker's soft time limit).
PublishOutcomes == {"published", "not_published", "http_status_error",
                    "exception", "raised"}

\* The body of the publishing service's 200 answer.
ServiceBody(outcome) ==
    IF outcome = "published"
    THEN [status |-> "published", platform_post_id |-> "101",
          platform_url |-> "https://site/p/101", error_message |-> "None"]
    ELSE [status |-> "failed", platform_post_id |-> "None",
          platform_url |-> "None",
          error_message |-> "Failed after 3 attempts. Last error: None"]

\* The success flag set for any 200 answer of the publishing service.
SuccessOf_AnyAnswer(body) == TRUE

\* workflow.py line 225
SuccessOf(body) == body.status = "published"

\* What the publishing service answered to the POST of lines 218-220: the
\* status of its 200 body, an error status, or nothing (the request failed
\* or the time limit struck).
ServiceAnswer(outcome) ==
    CASE outcome \in {"published", "not_published"} -> ServiceBody(outcome).status
      [] outcome = "http_status_error" -> "HTTP 500"
      [] OTHER -> "None"

\* workflow.py lines 174-244. Gives the returned dict, or the exception that
\* leaves the function, and whether the POST was issued.
publish_content_sync(content, target, outcome) ==
    LET platform == target.platform IN
    IF platform \notin {"wordpress", "instagram"}
    THEN \* lines 204-209
         [raised |-> FALSE, error |-> "None", http |-> FALSE,
          result |-> FailureEntry(platform, "Unsupported platform: " \o platform)]
    ELSE IF content.featured_image = "null"
    THEN \* lines 187/198: content.get('featured_image', {}) is None, .get raises
         \* AttributeError inside the try; lines 238-244 return the failure dict
         [raised |-> FALSE, error |-> "None", http |-> FALSE,
          result |-> FailureEntry(platform, "'NoneType' object has no attribute 'get'")]
    ELSE CASE outcome \in {"published", "not_published"} ->
                \* lines 218-229
                LET body == ServiceBody(outcome) IN
                [raised |-> FALSE, error |-> "None", http |-> TRUE,
                 result |-> [platform |-> platform,
                             success |-> SuccessOf(body),
                             post_id |-> body.platform_post_id,
                             post_url |-> body.platform_url,
                             error_message |-> body.error_message]]
           [] outcome = "http_status_error" ->
                \* lines 231-237
                [raised |-> FALSE, error |-> "None", http |-> TRUE,
                 result |-> FailureEntry(platform, "HTTP 500: Failed to publish")]
           [] outcome = "exception" ->
                \* lines 238-244
                [raised |-> FALSE, error |-> "None", http |-> TRUE,
                 result |-> FailureEntry(platform, "timed out")]
           [] OTHER ->
                [raised |-> TRUE, error |-> "SoftTimeLimitExceeded()", http |-> TRUE,
                 result |-> NoEntry]

\* Whether the outcome of the POST matters for this call.
ReachesService(content, target) ==
    target.platform \in {"wordpress", "instagram"} /\ content.featured_image # "null"

\* The loop pass with the handler of lines 70-76 dropping the failure.
ResultsAfterTarget_DropRaised(results, target, r) ==
    IF r.raised THEN results ELSE Append(results, r.result)

\* The loop pass putting the newest entry first.
ResultsAfterTarget_Prepend(results, target, r) ==
    IF r.raised
    THEN <<FailureEntry(target.platform, r.error)>> \o results
    ELSE <<r.result>> \o results

\* workflow.py lines 67-76: one pass of the publishing loop over `target`,
\* `r` being what publish_content_sync did.
ResultsAfterTarget(results, target, r) ==
    IF r.raised
    THEN Append(results, FailureEntry(target.platform, r.error))
    ELSE Append(results, r.result)

\* ------------------------------------------------------------ status query

NoResponse == [status |-> "None", content_generated |-> FALSE,
               article_title |-> "None", word_count |-> "None",
               publishing_results |-> <<>>, progress_percentage |-> 0,
               current_step |-> "None", error_message |-> "None"]

\* WorkflowResponse with the model's defaults for the fields not given.
WorkflowResponse(status, progress, step) ==
    [NoResponse EXCEPT !.status = status, !.progress_percentage = progress,
                       !.current_step = step]

\* The projection keeping only the targets that were published.
ProjectResults_OnlySuccessful(results) ==
    LET ok == SelectSeq(results, LAMBDA r : r.success) IN
    [i \in 1..Len(ok) |->
        [platform |-> ok[i].platform, success |-> ok[i].success,
         post_id |-> ok[i].post_id, post_url |-> ok[i].post_url,
         error_message |-> ok[i].error_message]]

\* api/workflow.py lines 131-139
ProjectResults(results) ==
    [i \in 1..Len(results) |->
        [platform |-> results[i].platform, success |-> results[i].success,
         post_id |-> results[i].post_id, post_url |-> results[i].post_url,
         error_message |-> results[i].error_message]]

\* The status query with fixed step texts in place of the payload's and of
\* the raw state name.
get_workflow_status_FixedSteps(state, meta, result) ==
    CASE state = "PROGRESS" ->
            WorkflowResponse("generating_content", meta.progress, "Processing...")
      [] state = "SUCCESS" ->
            [WorkflowResponse("published", 100, "Completed") EXCEPT
                !.content_generated = TRUE]
      [] state = "FAILURE" -> WorkflowResponse("failed", 0, "None")
      [] OTHER -> WorkflowResponse("pending", 0, "Waiting to start")

\* api/workflow.py lines 104-168: the answer built from the backend's record.
get_workflow_status(state, meta, result) ==
    CASE state = "PENDING" -> WorkflowResponse("pending", 0, "Waiting to start")
      [] state = "PROGRESS" ->
            WorkflowResponse("generating_content", meta.progress, meta.step)
      [] state = "SUCCESS" ->
            \* result.get('content', {}) and result.get('publishing_results', [])
            LET content == IF "content" \in result.keys THEN result.content
                           ELSE PyDict({}, "None", "None", "None", "None")
                prs == IF "publishing_results" \in result.keys
                       THEN result.publishing_results ELSE <<>>
            IN [status |-> "published", content_generated |-> TRUE,
                article_title |-> IF "title" \in content.keys THEN content.title ELSE "None",
                word_count |-> IF "word_count" \in content.keys
                               THEN content.word_count ELSE "None",
                publishing_results |-> ProjectResults(prs),
                progress_percentage |-> 100, current_step |-> "Completed",
                error_message |-> "None"]
      [] state = "FAILURE" ->
            \* the backend's result slot holds the exception of a failed task
            [WorkflowResponse("failed", 0, "None") EXCEPT
                !.error_message = IF result.error_message = "None"
                                  THEN "Unknown error" ELSE result.error_message]
      [] OTHER -> WorkflowResponse("pending", 0, "State: " \o state)

\* ----------------------------------------------------------------- actions

InitWorkflow ==
    /\ workflow_data = [publishing_targets |-> <<>>, auto_publish |-> TRUE]
    /\ wf_pc = "none"
    /\ gen_outcome = "None"
    /\ content_result = PyNone
    /\ target_idx = 1
    /\ publishing_results = <<>>
    /\ publish_sync_calls = <<>>
    /\ http_publish_calls = <<>>
    /\ backend_state = "PENDING"     \* Celery reports an unknown id as PENDING
    /\ backend_meta = NoMeta
    /\ backend_result = NoResult
    /\ status_response = NoResponse
    /\ status_query_pc = "None"
    /\ revoke_sent = FALSE
    /\ executions = 0
    /\ worker_losses = 0

\* api/workflow.py lines 58-80: POST execute with a target list out of `lists`.
SubmitWorkflow(lists) ==
    /\ wf_pc = "none"
    /\ \E targets \in lists, auto \in BOOLEAN :
          workflow_data' = [publishing_targets |-> targets, auto_publish |-> auto]
    /\ wf_pc' = "queued"
    /\ UNCHANGED <<rpVars, ccVars, bkVars, svcVars, lcVars, gen_outcome, content_result, target_idx, publishing_results,
                   publish_sync_calls, http_publish_calls, backend_state,
                   backend_meta, backend_result, status_response, status_query_pc>>

execute_workflow == SubmitWorkflow(TargetLists)

\* The same request with the shorter target lists of SpecLifecycle.
execute_workflow_short == SubmitWorkflow(LifecycleTargetLists)

\* A worker takes the task; celery_app.py line 30 (task_track_started) makes
\* the backend record STARTED.
WorkerStart ==
    /\ wf_pc = "queued"
    /\ wf_pc' = "l37"
    /\ backend_state' = "STARTED"
    /\ executions' = executions + 1
    /\ UNCHANGED <<rpVars, ccVars, bkVars, svcVars, revoke_sent, worker_losses, workflow_data, gen_outcome, content_result, target_idx,
                   publishing_results, publish_sync_calls, http_publish_calls,
                   backend_meta, backend_result, status_response, status_query_pc>>

\* workflow.py lines 37-40
UpdateInitializing ==
    /\ wf_pc = "l37"
    /\ wf_pc' = "l44"
    /\ backend_state' = "PROGRESS"
    /\ backend_meta' = Meta(10, "Initializing workflow")
    /\ UNCHANGED <<rpVars, ccVars, bkVars, svcVars, lcVars, workflow_data, gen_outcome, content_result, target_idx,
                   publishing_results, publish_sync_calls, http_publish_calls,
                   backend_result, status_response, status_query_pc>>

\* workflow.py lines 44-47
UpdateGenerating ==
    /\ wf_pc = "l44"
    /\ wf_pc' = "l49"
    /\ backend_state' = "PROGRESS"
    /\ backend_meta' = Meta(20, "Generating content")
    /\ UNCHANGED <<rpVars, ccVars, bkVars, svcVars, lcVars, workflow_data, gen_outcome, content_result, target_idx,
                   publishing_results, publish_sync_calls, http_publish_calls,
                   backend_result, status_response, status_query_pc>>

\* workflow.py lines 49-52 and, when line 52 raises, the handler of lines
\* 97-103: the task returns the failed dict, which Celery stores as SUCCESS.
GenerateContent ==
    /\ wf_pc = "l49"
    /\ \E outcome \in GenOutcomes :
          LET c == generate_content_sync(outcome) IN
          /\ gen_outcome' = outcome
          /\ content_result' = c
          /\ IF ContentRejected(c)
             THEN /\ wf_pc' = "done"
                  /\ backend_state' = "SUCCESS"
                  /\ backend_result' = FailedResult(ContentFailureMessage(c))
             ELSE /\ wf_pc' = "l57"
                  /\ UNCHANGED <<rpVars, ccVars, bkVars, svcVars, lcVars, backend_state, backend_result>>
    /\ UNCHANGED <<rpVars, ccVars, bkVars, svcVars, lcVars, workflow_data, target_idx, publishing_results, publish_sync_calls,
                   http_publish_calls, backend_meta, status_response, status_query_pc>>

\* Line 57 ignoring the request's auto_publish flag.
EntersPublishing_Always(data) == TRUE

\* workflow.py line 57: workflow_data.get('auto_publish', True)
EntersPublishing(data) == data.auto_publish

\* workflow.py lines 57-64: auto_publish is set.
UpdatePublishing ==
    /\ wf_pc = "l57"
    /\ EntersPublishing(workflow_data)
    /\ backend_state' = "PROGRESS"
    /\ backend_meta' = Meta(60, "Publishing content")
    /\ publishing_results' = <<>>
    /\ target_idx' = 1
    /\ wf_pc' = IF Len(workflow_data.publishing_targets) = 0 THEN "l84" ELSE "loop"
    /\ UNCHANGED <<rpVars, ccVars, bkVars, svcVars, lcVars, workflow_data, gen_outcome, content_result, publish_sync_calls,
                   http_publish_calls, backend_result, status_response, status_query_pc>>

\* workflow.py lines 79-81: auto_publish is not set.
SkipPublishing ==
    /\ wf_pc = "l57"
    /\ ~EntersPublishing(workflow_data)
    /\ publishing_results' = <<>>
    /\ wf_pc' = "l84"
    /\ UNCHANGED <<rpVars, ccVars, bkVars, svcVars, lcVars, workflow_data, gen_outcome, content_result, target_idx,
                   publish_sync_calls, http_publish_calls, backend_state,
                   backend_meta, backend_result, status_response, status_query_pc>>

\* workflow.py lines 66-76: one pass of the loop.
PublishTarget ==
    /\ wf_pc = "loop"
    /\ LET target == workflow_data.publishing_targets[target_idx] IN
       \E outcome \in PublishOutcomes :
          /\ ReachesService(content_result, target) \/ outcome = "published"
          /\ LET r == publish_content_sync(content_result, target, outcome) IN
             /\ publishing_results' = ResultsAfterTarget(publishing_results, target, r)
             /\ publish_sync_calls' = Append(publish_sync_calls, target_idx)
             /\ http_publish_calls' = IF r.http
                                      THEN Append(http_publish_calls, target_idx)
                                      ELSE http_publish_calls
             /\ service_answers' =
                   IF r.http
                   THEN Append(service_answers,
                               [target |-> target_idx, answer |-> ServiceAnswer(outcome)])
                   ELSE service_answers
    /\ target_idx' = target_idx + 1
    /\ wf_pc' = IF target_idx = Len(workflow_data.publishing_targets)
                THEN "l84" ELSE "loop"
    /\ UNCHANGED <<rpVars, ccVars, bkVars, bpVars, fcVars, atVars, psVars, capVars,
                   farVars, lcVars, workflow_data, gen_outcome, content_result,
                   backend_state, backend_meta, backend_result, status_response,
                   status_query_pc>>

\* workflow.py lines 84-87
UpdateCompleted ==
    /\ wf_pc = "l84"
    /\ wf_pc' = "l89"
    /\ backend_state' = "PROGRESS"
    /\ backend_meta' = Meta(100, "Workflow completed")
    /\ UNCHANGED <<rpVars, ccVars, bkVars, svcVars, lcVars, workflow_data, gen_outcome, content_result, target_idx,
                   publishing_results, publish_sync_calls, http_publish_calls,
                   backend_result, status_response, status_query_pc>>

\* workflow.py lines 89-95: the task returns; Celery stores SUCCESS.
ReturnCompleted ==
    /\ wf_pc = "l89"
    /\ wf_pc' = "done"
    /\ backend_state' = "SUCCESS"
    /\ backend_result' = CompletedResult(content_result, publishing_results)
    /\ UNCHANGED <<rpVars, ccVars, bkVars, svcVars, lcVars, workflow_data, gen_outcome, content_result, target_idx,
                   publishing_results, publish_sync_calls, http_publish_calls,
                   backend_meta, status_response, status_query_pc>>

\* api/workflow.py lines 96-168: GET status/{workflow_id}.
GetWorkflowStatus ==
    /\ status_response' = get_workflow_status(backend_state, backend_meta, backend_result)
    /\ status_query_pc' = wf_pc
    /\ UNCHANGED <<rpVars, ccVars, bkVars, svcVars, lcVars, workflow_data, wf_pc, gen_outcome, content_result, target_idx,
                   publishing_results, publish_sync_calls, http_publish_calls,
                   backend_state, backend_meta, backend_result>>

\* ------------------------------------------- queue, workers, result backend

\* Positions inside the body of generate_and_publish.
Executing == {"l37", "l44", "l49", "l57", "loop", "l84", "l89"}

\* celery_app.py lines 43-44
task_acks_late == TRUE

task_reject_on_worker_lost == TRUE

\* A worker loss with the message acknowledged: the task is not run again.
MessageAfterWorkerLost_Acked(acks_late, reject_on_worker_lost) == "lost"

\* Where the task message is after the worker running it died: with late
\* acknowledgement and reject-on-worker-lost the message goes back to the
\* queue, otherwise it is acknowledged and the task is marked failed.
MessageAfterWorkerLost(acks_late, reject_on_worker_lost) ==
    IF acks_late /\ reject_on_worker_lost THEN "queued" ELSE "lost"

\* What the backend keeps for a task that ended with an exception outside
\* the task body (str of the exception in the error_message slot).
BackendFailure(msg) == [NoResult EXCEPT !.error_message = msg]

\* The exception of self.update_state when the result backend is unreachable.
BackendErrorText == "Error 111 connecting to redis:6379. Connection refused."

\* api/workflow.py lines 235-252: DELETE cancel/{workflow_id}. The revoke is
\* broadcast; nothing else is read or written.
cancel_workflow ==
    /\ wf_pc # "none"
    /\ ~revoke_sent
    /\ revoke_sent' = TRUE
    /\ UNCHANGED <<wfVars, ccVars, bkVars, svcVars, rpVars, executions, worker_losses>>

\* The worker acts on revoke(terminate=True): a queued message is discarded
\* on receipt, a running task's process is terminated; the backend records
\* REVOKED. A task that already ended is left as it is.
WorkerRevokes ==
    /\ revoke_sent
    /\ wf_pc \in {"queued"} \cup Executing
    /\ wf_pc' = "revoked"
    /\ backend_state' = "REVOKED"
    /\ backend_meta' = NoMeta
    /\ UNCHANGED <<rpVars, ccVars, bkVars, svcVars, lcVars, workflow_data, gen_outcome, content_result, target_idx,
                   publishing_results, publish_sync_calls, http_publish_calls,
                   backend_result, status_response, status_query_pc>>

\* The worker process dies mid-task (celery_app.py lines 43-44). The locals
\* of the body are gone; the backend keeps the last state it was given.
WorkerLost ==
    /\ wf_pc \in Executing
    /\ worker_losses < MaxWorkerLosses
    /\ worker_losses' = worker_losses + 1
    /\ LET m == MessageAfterWorkerLost(task_acks_late, task_reject_on_worker_lost) IN
       /\ wf_pc' = m
       /\ IF m = "queued"
          THEN UNCHANGED <<backend_state, backend_result>>
          ELSE /\ backend_state' = "FAILURE"
               /\ backend_result' = BackendFailure("Worker exited prematurely")
    /\ gen_outcome' = "None"
    /\ content_result' = PyNone
    /\ target_idx' = 1
    /\ publishing_results' = <<>>
    /\ publish_sync_calls' = <<>>
    /\ http_publish_calls' = <<>>
    /\ service_answers' = <<>>
    /\ UNCHANGED <<rpVars, ccVars, bkVars, bpVars, fcVars, atVars, psVars, capVars,
                   farVars, revoke_sent, executions, workflow_data, backend_meta,
                   status_response, status_query_pc>>

\* celery_app.py line 31: the hard time limit kills the task's process; the
\* worker records FAILURE and acknowledges the message.
TimeLimitKill ==
    /\ wf_pc \in Executing
    /\ wf_pc' = "killed"
    /\ backend_state' = "FAILURE"
    /\ backend_result' = BackendFailure("TimeLimitExceeded")
    /\ UNCHANGED <<rpVars, ccVars, bkVars, svcVars, lcVars, workflow_data, gen_outcome, content_result, target_idx,
                   publishing_results, publish_sync_calls, http_publish_calls,
                   backend_meta, status_response, status_query_pc>>

\* workflow.py lines 37, 44, 59, 84 with the handler of lines 97-103:
\* self.update_state raises inside the try, the task returns the failed dict.
UpdateStateRaises ==
    /\ \/ wf_pc \in {"l37", "l44", "l84"}
       \/ wf_pc = "l57" /\ EntersPublishing(workflow_data)
    /\ wf_pc' = "done"
    /\ backend_state' = "SUCCESS"
    /\ backend_result' = FailedResult(BackendErrorText)
    /\ UNCHANGED <<rpVars, ccVars, bkVars, svcVars, lcVars, workflow_data, gen_outcome, content_result, target_idx,
                   publishing_results, publish_sync_calls, http_publish_calls,
                   backend_meta, status_response, status_query_pc>>

\* celery_app.py line 35: the backend drops the record of an ended task; the
\* id reads as PENDING again.
ResultExpires ==
    /\ wf_pc \in {"done", "revoked", "killed", "lost"}
    /\ backend_state # "PENDING"
    /\ backend_state' = "PENDING"
    /\ backend_meta' = NoMeta
    /\ backend_result' = NoResult
    /\ UNCHANGED <<rpVars, ccVars, bkVars, svcVars, lcVars, workflow_data, wf_pc, gen_outcome, content_result,
                   target_idx, publishing_results, publish_sync_calls,
                   http_publish_calls, status_response, status_query_pc>>

\* ======================================================= publishing service

\* models/publication.py lines 13-19
PlatformType == {"wordpress", "instagram", "facebook", "x", "linkedin"}

\* PublicationRequest.wordpress_data: absent, or a WordPressPostData with or
\* without a featured image (categories and tags left at their default []).
WordPressDataValues ==
    {[present |-> FALSE, featured_image_url |-> "None"],
     [present |-> TRUE, featured_image_url |-> "None"],
     [present |-> TRUE, featured_image_url |-> "https://img/1.jpg"]}

\* PublicationRequest.instagram_data: absent, or an InstagramPostData.
InstagramDataValues == {[present |-> FALSE], [present |-> TRUE]}

\* models/publication.py lines 76-92: nothing ties the populated variant to
\* the platform tag, so every combination is a valid request.
PublicationRequests ==
    [platform : PlatformType, wordpress_data : WordPressDataValues,
     instagram_data : InstagramDataValues]

NoPublicationResponse ==
    [publication_id |-> "None", platform |-> "None", status |-> "None",
     platform_post_id |-> "None", platform_url |-> "None", error_message |-> "None"]

\* _create_response leaving error_message at its default None.
create_response_DropsError(platform_type, publication_id, status, post_id, url, error) ==
    [publication_id |-> publication_id, platform |-> platform_type, status |-> status,
     platform_post_id |-> post_id, platform_url |-> url, error_message |-> "None"]

\* base.py lines 115-143
create_response(platform_type, publication_id, status, post_id, url, error) ==
    [publication_id |-> publication_id, platform |-> platform_type, status |-> status,
     platform_post_id |-> post_id, platform_url |-> url, error_message |-> error]

\* str(uuid.uuid4()): the n-th value drawn differs from every other one.
Uuid(n) == "uuid-" \o ToString(n)

\* What the remote platforms do during one publish attempt.
RemoteBehaviours ==
    [image : {"ok", "fail"},
     post : {"ok", "http_status_error", "exception"},
     container : {"ok", "fail"},
     publish : {"ok", "fail"},
     shortcode : {"ok", "fail"}]

\* The JSON body of the post-creation call, as far as the publisher's earlier
\* steps decide it: a key left out reads as "None", an id list left out as <<>>.
NoPostData == [featured_media |-> "None", categories |-> <<>>, tags |-> <<>>]

\* What one invocation of publish did: the exception it raised or the
\* response it returned, the calls it made, in order, and the body of the
\* post-creation call where there is one.
Raised(msg) ==
    [raised |-> TRUE, error |-> msg, response |-> NoPublicationResponse, calls |-> <<>>,
     post_data |-> NoPostData]

Returned(response, calls) ==
    [raised |-> FALSE, error |-> "None", response |-> response, calls |-> calls,
     post_data |-> NoPostData]

\* wordpress.py lines 161-204: the calls _upload_image makes. The download
\* fails ("fail"), or the upload of the downloaded image does ("upload_fail").
UploadImageCalls(remote) ==
    IF remote.image = "fail" THEN <<"GET image">> ELSE <<"GET image", "POST media">>

\* _upload_image returning a media id whatever the download and the upload did.
UploadImageId_Always(remote) == "7"

\* wordpress.py lines 161-204: the media id _upload_image returns, None after
\* any exception.
UploadImageId(remote) == IF remote.image = "ok" THEN "7" ELSE "None"

\* The names a request asks for.
CategoryNames == {"Tech", "News"}
TagNames == {"ai"}
TermNames == [categories |-> CategoryNames, tags |-> TagNames]

\* What the remote site does for one term name: the search finds a term,
\* finds none, fails (the request raises) or answers with a body that is not
\* a list of terms (an error object); the create call made after an empty
\* search answers 201, answers another status, or fails.
TermBehaviours ==
    [search : {"found", "error", "malformed"}, create : {"unused"}]
       \cup [search : {"none"}, create : {"created", "rejected", "error"}]

\* Every term of the site found by its search.
AllTermsFound ==
    [t \in {"categories", "tags"} |->
        [n \in TermNames[t] |-> [search |-> "found", create |-> "unused"]]]

TermRemotes ==
    [categories : [CategoryNames -> TermBehaviours], tags : [TagNames -> TermBehaviours]]

\* The id the site holds for a name, and the one it gives a created term.
FoundId(taxonomy, name) == taxonomy \o ":" \o name
CreatedId(taxonomy, name) == "new " \o taxonomy \o ":" \o name

\* One pass of the loop creating the term whatever the search returned.
ResolveTerm_AlwaysCreates(taxonomy, name, b) ==
    [ids |-> <<CreatedId(taxonomy, name)>>,
     calls |-> <<"GET " \o taxonomy \o " " \o name, "POST " \o taxonomy \o " " \o name>>]

\* One pass of the loop appending new_category.get('id') whatever the create
\* call answered.
ResolveTerm_AppendsNone(taxonomy, name, b) ==
    LET search == "GET " \o taxonomy \o " " \o name
        create == "POST " \o taxonomy \o " " \o name
    IN CASE b.search = "found" -> [ids |-> <<FoundId(taxonomy, name)>>, calls |-> <<search>>]
         [] b.search = "none" /\ b.create = "created" ->
               [ids |-> <<CreatedId(taxonomy, name)>>, calls |-> <<search, create>>]
         [] b.search = "none" -> [ids |-> <<"None">>, calls |-> <<search, create>>]
         [] OTHER -> [ids |-> <<>>, calls |-> <<search>>]

\* wordpress.py lines 219-251 and 268-300: one pass of the loop, the ids it
\* appends and the calls it makes. categories[0]['id'] of an error object
\* raises inside the try.
ResolveTerm(taxonomy, name, b) ==
    LET search == "GET " \o taxonomy \o " " \o name
        create == "POST " \o taxonomy \o " " \o name
    IN CASE b.search = "found" -> [ids |-> <<FoundId(taxonomy, name)>>, calls |-> <<search>>]
         [] b.search = "none" /\ b.create = "created" ->
               [ids |-> <<CreatedId(taxonomy, name)>>, calls |-> <<search, create>>]
         [] b.search = "none" -> [ids |-> <<>>, calls |-> <<search, create>>]
         [] OTHER -> [ids |-> <<>>, calls |-> <<search>>]

\* The loop of lines 219-251 and 268-300 from position k on.
RECURSIVE ResolveFrom(_, _, _, _)
ResolveFrom(taxonomy, names, terms, k) ==
    IF k > Len(names)
    THEN [ids |-> <<>>, calls |-> <<>>]
    ELSE LET o == ResolveTerm(taxonomy, names[k], terms[taxonomy][names[k]])
             rest == ResolveFrom(taxonomy, names, terms, k + 1)
         IN [ids |-> o.ids \o rest.ids, calls |-> o.calls \o rest.calls]

\* wordpress.py lines 206-253.
get_or_create_categories(category_names, terms) ==
    ResolveFrom("categories", category_names, terms, 1)

\* wordpress.py lines 255-302.
get_or_create_tags(tag_names, terms) == ResolveFrom("tags", tag_names, terms, 1)

\* wordpress.py lines 75-159: the attempt once the payload check has passed.
WordPressPublishTerms(wp_data, categories, tags, remote, terms, publication_id) ==
    LET image_calls == IF wp_data.featured_image_url # "None"
                       THEN UploadImageCalls(remote) ELSE <<>>
        featured_media_id == IF wp_data.featured_image_url # "None"
                             THEN UploadImageId(remote) ELSE "None"
        cats == get_or_create_categories(categories, terms)
        tgs == get_or_create_tags(tags, terms)
        post_data == [featured_media |-> featured_media_id, categories |-> cats.ids,
                      tags |-> tgs.ids]
        calls == image_calls \o cats.calls \o tgs.calls \o <<"POST posts">>
        response ==
           CASE remote.post = "ok" ->
                   create_response("wordpress", publication_id, "published",
                                   "101", "https://site/?p=101", "None")
             [] remote.post = "http_status_error" ->
                   create_response("wordpress", publication_id, "failed", "None", "None",
                                   "WordPress API error: 500 - Internal Server Error")
             [] OTHER ->
                   create_response("wordpress", publication_id, "failed", "None", "None",
                                   "Unexpected error: timed out")
    IN [Returned(response, calls) EXCEPT !.post_data = post_data]

\* wordpress.py lines 75-159 for a request whose categories and tags are left
\* at their default [].
WordPressPublishValidated(wp_data, remote, publication_id) ==
    WordPressPublishTerms(wp_data, <<>>, <<>>, remote, AllTermsFound, publication_id)

\* publish with the check of line 72 reading the other platform's payload;
\* line 79 then reads wp_data.title of None inside the try.
WordPressPublish_WrongField(req, remote, publication_id) ==
    IF ~req.instagram_data.present
    THEN Raised("WordPress data is required for WordPress publishing")
    ELSE IF ~req.wordpress_data.present
    THEN Returned(create_response("wordpress", publication_id, "failed", "None", "None",
                      "Unexpected error: 'NoneType' object has no attribute 'title'"),
                  <<>>)
    ELSE WordPressPublishValidated(req.wordpress_data, remote, publication_id)

\* wordpress.py lines 62-159.
WordPressPublish(req, remote, publication_id) ==
    IF ~req.wordpress_data.present
    THEN Raised("WordPress data is required for WordPress publishing")
    ELSE WordPressPublishValidated(req.wordpress_data, remote, publication_id)

\* publish without the try of line 78: a failed container or publish step
\* propagates out of publish.
InstagramPublish_Propagates(req, remote, publication_id) ==
    IF ~req.instagram_data.present
    THEN Raised("Instagram data is required for Instagram publishing")
    ELSE IF remote.container = "fail"
    THEN Raised("Failed to create media container")
    ELSE IF remote.publish = "fail"
    THEN Raised("Failed to publish media container")
    ELSE Returned(create_response("instagram", publication_id, "published", "m1",
                      "https://www.instagram.com/p/"
                          \o (IF remote.shortcode = "ok" THEN "Cx1" ELSE "m1"),
                      "None"),
                  <<"POST media", "sleep 3", "POST media_publish", "GET shortcode">>)

\* publish without the check of line 94: the permalink is looked up even
\* when publishing the container gave no media id.
InstagramPublish_LooksUpAnyway(req, remote, publication_id) ==
    IF ~req.instagram_data.present
    THEN Raised("Instagram data is required for Instagram publishing")
    ELSE IF remote.container = "fail"
    THEN Returned(create_response("instagram", publication_id, "failed", "None", "None",
                      "Instagram publishing error: Failed to create media container"),
                  <<"POST media">>)
    ELSE Returned(create_response("instagram", publication_id,
                      IF remote.publish = "fail" THEN "failed" ELSE "published",
                      IF remote.publish = "fail" THEN "None" ELSE "m1",
                      IF remote.publish = "fail" THEN "None"
                      ELSE "https://www.instagram.com/p/"
                              \o (IF remote.shortcode = "ok" THEN "Cx1" ELSE "m1"),
                      IF remote.publish = "fail"
                      THEN "Instagram publishing error: Failed to publish media container"
                      ELSE "None"),
                  <<"POST media", "sleep 3", "POST media_publish", "GET shortcode">>)

\* publish with _get_media_code letting its exception through: a failed
\* shortcode lookup reaches the except of line 109.
InstagramPublish_LookupFatal(req, remote, publication_id) ==
    IF ~req.instagram_data.present
    THEN Raised("Instagram data is required for Instagram publishing")
    ELSE IF remote.container = "fail"
    THEN Returned(create_response("instagram", publication_id, "failed", "None", "None",
                      "Instagram publishing error: Failed to create media container"),
                  <<"POST media">>)
    ELSE IF remote.publish = "fail"
    THEN Returned(create_response("instagram", publication_id, "failed", "None", "None",
                      "Instagram publishing error: Failed to publish media container"),
                  <<"POST media", "sleep 3", "POST media_publish">>)
    ELSE IF remote.shortcode = "fail"
    THEN Returned(create_response("instagram", publication_id, "failed", "None", "None",
                      "Instagram publishing error: timed out"),
                  <<"POST media", "sleep 3", "POST media_publish", "GET shortcode">>)
    ELSE Returned(create_response("instagram", publication_id, "published", "m1",
                      "https://www.instagram.com/p/Cx1", "None"),
                  <<"POST media", "sleep 3", "POST media_publish", "GET shortcode">>)

\* instagram.py lines 58-116 with 118-239.
InstagramPublish(req, remote, publication_id) ==
    IF ~req.instagram_data.present
    THEN Raised("Instagram data is required for Instagram publishing")
    ELSE IF remote.container = "fail"
    THEN Returned(create_response("instagram", publication_id, "failed", "None", "None",
                      "Instagram publishing error: Failed to create media container"),
                  <<"POST media">>)
    ELSE IF remote.publish = "fail"
    THEN Returned(create_response("instagram", publication_id, "failed", "None", "None",
                      "Instagram publishing error: Failed to publish media container"),
                  <<"POST media", "sleep 3", "POST media_publish">>)
    ELSE Returned(create_response("instagram", publication_id, "published", "m1",
                      "https://www.instagram.com/p/"
                          \o (IF remote.shortcode = "ok" THEN "Cx1" ELSE "m1"),
                      "None"),
                  <<"POST media", "sleep 3", "POST media_publish", "GET shortcode">>)

\* publishers/__init__.py lines 33-40 and 61: the registered class, or None.
PublisherClass(platform) ==
    IF platform \in {"wordpress", "instagram"} THEN platform ELSE "None"

\* _get_platform_config returning a dict whatever the settings say.
get_platform_config_Always(platform, conf) ==
    platform \in {"wordpress", "instagram", "facebook"}

\* api/publish.py lines 248-282: whether a config dict is returned.
get_platform_config(platform, conf) ==
    platform \in {"wordpress", "instagram", "facebook"} /\ platform \in conf

\* A string is a sequence of characters where its characters matter.
\* str.rstrip('/')
RECURSIVE Rstrip(_)
Rstrip(s) ==
    IF s # <<>> /\ s[Len(s)] = "/" THEN Rstrip(SubSeq(s, 1, Len(s) - 1)) ELSE s

\* Truth value of an optional string: None and '' are false.
Truthy(v) == v \notin {"None", ""}

\* A config dict with no key at all; a missing key reads as None, and the
\* url, read with config.get('url', ''), as ''.
EmptyConfig ==
    [url |-> <<>>, username |-> "None", app_password |-> "None",
     access_token |-> "None", business_account_id |-> "None", page_id |-> "None"]

\* api/publish.py lines 260-280: the dict built from the settings. A platform
\* is configured only when all its settings are truthy (config.py lines
\* 31-66), so the dict's values other than the url are fixed non-empty strings.
platform_config(platform, url) ==
    CASE platform = "wordpress" ->
            [EmptyConfig EXCEPT !.url = url, !.username = "admin",
                                !.app_password = "app-pw"]
      [] platform = "instagram" ->
            [EmptyConfig EXCEPT !.access_token = "token",
                                !.business_account_id = "1789"]
      [] OTHER ->
            [EmptyConfig EXCEPT !.access_token = "token", !.page_id = "55"]

NotConstructed == [kind |-> "None", platform_type |-> "None", error |-> "None"]

Constructed(platform_type) ==
    [kind |-> "publisher", platform_type |-> platform_type, error |-> "None"]

ConstructorRaised(msg) ==
    [kind |-> "raised", platform_type |-> "None", error |-> msg]

\* wordpress.py lines 38-60 with base.py lines 37-45.
WordPressPublisher(config) ==
    IF Rstrip(config.url) # <<>> /\ Truthy(config.username) /\ Truthy(config.app_password)
    THEN Constructed("wordpress")
    ELSE ConstructorRaised("WordPress configuration incomplete. Need: url, username, app_password")

\* instagram.py lines 40-56 with base.py lines 37-45.
InstagramPublisher(config) ==
    IF Truthy(config.access_token) /\ Truthy(config.business_account_id)
    THEN Constructed("instagram")
    ELSE ConstructorRaised("Instagram configuration incomplete. Need: access_token, business_account_id")

\* create_publisher with the handler of line 71 returning None.
create_publisher_Swallows(platform, config) ==
    LET made == IF platform = "wordpress" THEN WordPressPublisher(config)
                ELSE InstagramPublisher(config)
    IN IF PublisherClass(platform) = "None" \/ made.kind = "raised"
       THEN NotConstructed
       ELSE made

\* publishers/__init__.py lines 42-73: the handler of line 71 logs and
\* re-raises.
create_publisher(platform, config) ==
    IF PublisherClass(platform) = "None"
    THEN NotConstructed
    ELSE IF PublisherClass(platform) = "wordpress"
    THEN WordPressPublisher(config)
    ELSE InstagramPublisher(config)

\* self.publish(request) of base.py line 171, dispatched on the publisher's class.
Publish(publisher, req, remote, publication_id) ==
    IF publisher = "wordpress"
    THEN WordPressPublish(req, remote, publication_id)
    ELSE InstagramPublish(req, remote, publication_id)

\* The remote behaviours that make a difference to this publisher.
RemotesFor(publisher) ==
    IF publisher = "wordpress"
    THEN {r \in RemoteBehaviours :
             r.container = "ok" /\ r.publish = "ok" /\ r.shortcode = "ok"}
    ELSE {r \in RemoteBehaviours : r.image = "ok" /\ r.post = "ok"}

\* base.py line 190
FailedAfterMessage(n, err) ==
    "Failed after " \o ToString(n) \o " attempts. Last error: " \o err

\* retry_publish catching only what publish raises: base.py line 177.
LastErrorAfter(prev, outcome) ==
    IF outcome.raised THEN outcome.error ELSE prev

\* base.py lines 183-184: the sleep after attempt k, which only the handler
\* of a raised exception reaches.
SleepsAfter(prev, outcome, k, n, d) ==
    IF outcome.raised /\ k < n THEN Append(prev, d * k) ELSE prev

\* Lines 173-174 with a status test that never matches.
Succeeded_Never(outcome) == FALSE

\* base.py lines 173-174: the attempt ends the loop.
Succeeded(outcome) == ~outcome.raised /\ outcome.response.status = "published"

\* base.py line 168 written range(1, max_attempts).
LoopContinues_OneShort(k, n) == k < n

\* base.py line 168: for attempt in range(1, max_attempts + 1)
LoopContinues(k, n) == k <= n

\* base.py line 148: the default of retry_publish's max_attempts
DEFAULT_MAX_ATTEMPTS == 3

\* models/publication.py line 58: the length full_caption cuts at, which is
\* also the max_length of caption (line 48)
CAPTION_LIMIT == 2200

\* config.py line 116, and a second value of the setting
RETRY_DELAY_SECONDS == 5

RetryDelays == {1, RETRY_DELAY_SECONDS}

NoEndpointResult == [kind |-> "None", status_code |-> 0, response |-> NoPublicationResponse]

HttpError(code) == [kind |-> "http_error", status_code |-> code,
                    response |-> NoPublicationResponse]

HttpOk(response) == [kind |-> "response", status_code |-> 200, response |-> response]

\* Values of settings.WORDPRESS_URL: a site address without and with a
\* trailing slash, and nothing but slashes.
WordPressUrls == {<<"h">>, <<"h", "/">>, <<"/">>, <<"/", "/">>}

\* config.py lines 31-38: wordpress_configured requires a non-empty URL; an
\* unset URL is the empty string.
SettingsUrls(conf) == IF "wordpress" \in conf THEN WordPressUrls ELSE {<<>>}

\* The publishing service after start-up: settings are read once.
InitPublish ==
    /\ request = [platform |-> "wordpress",
                  wordpress_data |-> [present |-> FALSE, featured_image_url |-> "None"],
                  instagram_data |-> [present |-> FALSE]]
    /\ configured \in SUBSET {"wordpress", "instagram", "facebook"}
    /\ WORDPRESS_URL \in SettingsUrls(configured)
    /\ rp_pc = "idle"
    /\ max_attempts \in 0..MaxAttemptsCap
    /\ delay \in RetryDelays
    /\ attempt = 1
    /\ last_error = "None"
    /\ publish_log = <<>>
    /\ sleeps = <<>>
    /\ uuid_next = 0
    /\ endpoint_result = NoEndpointResult

\* api/publish.py lines 42-79: POST publish up to the call of retry_publish,
\* and base.py line 166. No publisher (line 57) and a constructor error
\* (line 74) both answer 500.
publish_content ==
    /\ rp_pc = "idle"
    /\ \E req \in PublicationRequests :
          /\ request' = req
          /\ IF ~get_platform_config(req.platform, configured)
             THEN /\ endpoint_result' = HttpError(400)
                  /\ rp_pc' = "done"
             ELSE IF create_publisher(req.platform,
                        platform_config(req.platform, WORDPRESS_URL)).kind # "publisher"
             THEN /\ endpoint_result' = HttpError(500)
                  /\ rp_pc' = "done"
             ELSE /\ endpoint_result' = endpoint_result
                  /\ rp_pc' = "retry"
    /\ attempt' = 1
    /\ last_error' = "None"
    /\ UNCHANGED <<wfVars, ccVars, bkVars, svcVars, lcVars, configured, WORDPRESS_URL, max_attempts, delay, publish_log, sleeps, uuid_next>>

\* base.py lines 168-184: one pass of the loop of retry_publish.
RetryAttempt ==
    /\ rp_pc = "retry"
    /\ LoopContinues(attempt, max_attempts)
    /\ LET publisher == PublisherClass(request.platform) IN
       \E remote \in RemotesFor(publisher) :
          LET o == Publish(publisher, request, remote, Uuid(uuid_next + 1)) IN
          /\ publish_log' = Append(publish_log, o)
          /\ uuid_next' = IF o.raised THEN uuid_next ELSE uuid_next + 1
          /\ IF Succeeded(o)
             THEN /\ endpoint_result' = HttpOk(o.response)
                  /\ rp_pc' = "done"
                  /\ UNCHANGED <<attempt, last_error, sleeps>>
             ELSE /\ last_error' = LastErrorAfter(last_error, o)
                  /\ sleeps' = SleepsAfter(sleeps, o, attempt, max_attempts, delay)
                  /\ attempt' = attempt + 1
                  /\ UNCHANGED <<endpoint_result, rp_pc>>
    /\ UNCHANGED <<wfVars, ccVars, bkVars, svcVars, lcVars, request, configured, WORDPRESS_URL, max_attempts, delay>>

\* base.py lines 186-191, answered by api/publish.py line 70.
RetryExhausted ==
    /\ rp_pc = "retry"
    /\ ~LoopContinues(attempt, max_attempts)
    /\ endpoint_result' =
          HttpOk(create_response(PublisherClass(request.platform),
                                 "failed_" \o request.platform, "failed", "None", "None",
                                 FailedAfterMessage(max_attempts, last_error)))
    /\ rp_pc' = "done"
    /\ UNCHANGED <<wfVars, ccVars, bkVars, svcVars, lcVars, request, configured, WORDPRESS_URL, max_attempts, delay, attempt,
                   last_error, publish_log, sleeps, uuid_next>>

\* ---------------------------------------------------------- bulk submission

\* The WorkflowRequests of a bulk request, as the workflow_data built from them.
BulkWorkflowRequests ==
    {[publishing_targets |-> <<t>>, auto_publish |-> a] : t \in Targets, a \in BOOLEAN}

\* models/workflow.py lines 152-174 (min_length=1; max_length=50 stands at MaxBulk)
BulkRequests ==
    [workflows : UNION {[1..n -> BulkWorkflowRequests] : n \in 1..MaxBulk},
     parallel_execution : BOOLEAN, stop_on_first_error : BOOLEAN]

NoBulkRequest == [workflows |-> <<>>, parallel_execution |-> TRUE,
                  stop_on_first_error |-> FALSE]

NoBulkResponse == [status_code |-> 0, total |-> 0, successful |-> 0, failed |-> 0,
                   in_progress |-> 0, workflows |-> <<>>]

\* api/workflow.py lines 208-213
BulkPlaceholder(task_id) ==
    [workflow_id |-> task_id, status |-> "pending", progress_percentage |-> 0,
     current_step |-> "Workflow queued"]

\* The response with in_progress left at the model's default.
BulkWorkflowResponse_Defaults(workflows) ==
    [status_code |-> 202, total |-> Len(workflows), successful |-> 0, failed |-> 0,
     in_progress |-> 0, workflows |-> workflows]

\* api/workflow.py lines 215-219 with the defaults of models/workflow.py 177-183
BulkWorkflowResponse(workflows) ==
    [status_code |-> 202, total |-> Len(workflows), successful |-> 0, failed |-> 0,
     in_progress |-> Len(workflows), workflows |-> workflows]

BulkIdle ==
    /\ bulk_request = NoBulkRequest
    /\ bulk_pc = "idle"
    /\ bulk_idx = 1
    /\ task_queue = <<>>
    /\ bulk_workflows = <<>>
    /\ bulk_response = NoBulkResponse

\* api/workflow.py lines 185-195: POST execute/bulk up to the loop.
execute_bulk_workflows ==
    /\ bulk_pc = "idle"
    /\ bulk_request' \in BulkRequests
    /\ bulk_pc' = "loop"
    /\ bulk_idx' = 1
    /\ bulk_workflows' = <<>>
    /\ UNCHANGED <<wfVars, rpVars, lcVars, ccVars, svcVars, task_queue, bulk_response>>

\* api/workflow.py lines 197-213: one pass of the loop, apply_async succeeds.
BulkSubmit ==
    /\ bulk_pc = "loop"
    /\ bulk_idx <= Len(bulk_request.workflows)
    /\ LET task_id == Uuid(Len(task_queue) + 1) IN
       /\ task_queue' = Append(task_queue,
                               [id |-> task_id, args |-> bulk_request.workflows[bulk_idx]])
       /\ bulk_workflows' = Append(bulk_workflows, BulkPlaceholder(task_id))
    /\ bulk_idx' = bulk_idx + 1
    /\ UNCHANGED <<wfVars, rpVars, lcVars, ccVars, svcVars, bulk_request, bulk_pc, bulk_response>>

\* api/workflow.py line 206 raising (broker unreachable) and lines 221-226:
\* the answer is 500; what was enqueued stays enqueued.
BulkSubmitRaises ==
    /\ bulk_pc = "loop"
    /\ bulk_idx <= Len(bulk_request.workflows)
    /\ bulk_response' = [NoBulkResponse EXCEPT !.status_code = 500]
    /\ bulk_pc' = "done"
    /\ UNCHANGED <<wfVars, rpVars, lcVars, ccVars, svcVars, bulk_request, bulk_idx, task_queue,
                   bulk_workflows>>

\* api/workflow.py lines 215-219
BulkReturn ==
    /\ bulk_pc = "loop"
    /\ bulk_idx > Len(bulk_request.workflows)
    /\ bulk_response' = BulkWorkflowResponse(bulk_workflows)
    /\ bulk_pc' = "done"
    /\ UNCHANGED <<wfVars, rpVars, lcVars, ccVars, svcVars, bulk_request, bulk_idx, task_queue,
                   bulk_workflows>>

\* ---------------------------- two calls of retry_publish on one publisher

Calls == {1, 2}

\* Both calls' requests carry the shared publisher's platform tag; the
\* payload of that platform is present or absent.
ConcurrentRequests(publisher) ==
    {r \in PublicationRequests :
        /\ r.platform = publisher
        /\ r.wordpress_data.featured_image_url = "None"
        /\ publisher = "wordpress" => ~r.instagram_data.present
        /\ publisher = "instagram" => ~r.wordpress_data.present}

\* uuid4 inside publish: one value per call and attempt, all different.
CallUuid(call, k) == Uuid(call) \o "-" \o ToString(k)

\* last_error and attempt kept on the publisher instance, which both calls share.
FrameOf_OnInstance(call) == 1

\* base.py lines 166-168: last_error and attempt are locals of the
\* coroutine, one frame per call.
FrameOf(call) == call

\* A request slot before retry_publish was called.
IdleRequest == [platform |-> "wordpress",
                wordpress_data |-> [present |-> FALSE, featured_image_url |-> "None"],
                instagram_data |-> [present |-> FALSE]]

\* No call of retry_publish has been made.
CallsIdle ==
    /\ cc_request = [c \in Calls |-> IdleRequest]
    /\ cc_max_attempts = [c \in Calls |-> 0]
    /\ cc_pc = [c \in Calls |-> "idle"]
    /\ cc_attempt = [c \in Calls |-> 1]
    /\ cc_last_error = [c \in Calls |-> "None"]
    /\ cc_log = [c \in Calls |-> <<>>]
    /\ cc_result = [c \in Calls |-> NoPublicationResponse]

ConcurrentIdle == shared_publisher = "None" /\ CallsIdle

\* base.py lines 37-45 with wordpress.py 47-60 / instagram.py 49-56: the
\* instance is built once; nothing writes to it afterwards.
InitConcurrent == shared_publisher \in {"wordpress", "instagram"} /\ CallsIdle

\* base.py lines 145-166: a call of retry_publish up to its loop.
retry_publish(call) ==
    /\ cc_pc[call] = "idle"
    /\ \E req \in ConcurrentRequests(shared_publisher), n \in 0..MaxAttemptsCap :
          /\ cc_request' = [cc_request EXCEPT ![call] = req]
          /\ cc_max_attempts' = [cc_max_attempts EXCEPT ![call] = n]
    /\ cc_last_error' = [cc_last_error EXCEPT ![FrameOf(call)] = "None"]
    /\ cc_attempt' = [cc_attempt EXCEPT ![FrameOf(call)] = 1]
    /\ cc_pc' = [cc_pc EXCEPT ![call] = "retry"]
    /\ UNCHANGED <<wfVars, rpVars, lcVars, bkVars, svcVars, shared_publisher, cc_log, cc_result>>

\* base.py lines 168-184: one pass of the loop of one call.
ConcurrentRetryAttempt(call) ==
    LET f == FrameOf(call) IN
    /\ cc_pc[call] = "retry"
    /\ LoopContinues(cc_attempt[f], cc_max_attempts[call])
    /\ \E remote \in RemotesFor(shared_publisher) :
          LET o == Publish(shared_publisher, cc_request[call], remote,
                           CallUuid(call, cc_attempt[f])) IN
          /\ cc_log' = [cc_log EXCEPT ![call] = Append(@, o)]
          /\ IF Succeeded(o)
             THEN /\ cc_result' = [cc_result EXCEPT ![call] = o.response]
                  /\ cc_pc' = [cc_pc EXCEPT ![call] = "done"]
                  /\ UNCHANGED <<cc_attempt, cc_last_error>>
             ELSE /\ cc_last_error' = [cc_last_error EXCEPT
                                         ![f] = LastErrorAfter(@, o)]
                  /\ cc_attempt' = [cc_attempt EXCEPT ![f] = @ + 1]
                  /\ UNCHANGED <<cc_result, cc_pc>>
    /\ UNCHANGED <<wfVars, rpVars, lcVars, bkVars, svcVars, shared_publisher, cc_request,
                   cc_max_attempts>>

\* base.py lines 186-191 of one call.
ConcurrentRetryExhausted(call) ==
    LET f == FrameOf(call) IN
    /\ cc_pc[call] = "retry"
    /\ ~LoopContinues(cc_attempt[f], cc_max_attempts[call])
    /\ cc_result' = [cc_result EXCEPT ![call] =
          create_response(shared_publisher, "failed_" \o cc_request[call].platform,
                          "failed", "None", "None",
                          FailedAfterMessage(cc_max_attempts[call], cc_last_error[f]))]
    /\ cc_pc' = [cc_pc EXCEPT ![call] = "done"]
    /\ UNCHANGED <<wfVars, rpVars, lcVars, bkVars, svcVars, shared_publisher, cc_request,
                   cc_max_attempts, cc_attempt, cc_last_error, cc_log>>

\* ============================================ PublisherFactory.create_publisher

\* Values of one credential key of a config dict: missing, empty, set.
CredentialValues == {"None", "", "secret"}

\* Config dicts a caller may hand to create_publisher.
FactoryConfigs ==
    [url : WordPressUrls \cup {<<>>}, username : CredentialValues,
     app_password : CredentialValues, access_token : CredentialValues,
     business_account_id : CredentialValues, page_id : {"None"}]

NoFactoryCall == [kind |-> "not called", platform_type |-> "None", error |-> "None"]

FactoryIdle ==
    /\ fc_platform = "None"
    /\ fc_config = EmptyConfig
    /\ fc_result = NoFactoryCall

InitFactory ==
    /\ fc_platform \in PlatformType
    /\ fc_config \in FactoryConfigs
    /\ fc_result = NoFactoryCall

\* publishers/__init__.py lines 42-73: one call of create_publisher.
CreatePublisher ==
    /\ fc_result = NoFactoryCall
    /\ fc_result' = create_publisher(fc_platform, fc_config)
    /\ UNCHANGED <<extVars, wfVars, rpVars, lcVars, ccVars, bkVars, bpVars, atVars, psVars,
                   capVars, fc_platform, fc_config>>

\* ================================================= one invocation of publish

\* publish has not been invoked.
NoOutcome == [raised |-> FALSE, error |-> "None", response |-> NoPublicationResponse,
              calls |-> <<>>, post_data |-> NoPostData]

\* A remote platform on which every call succeeds.
QuietRemote == [image |-> "ok", post |-> "ok", container |-> "ok", publish |-> "ok",
                shortcode |-> "ok"]

AttemptIdle ==
    /\ at_publisher = "None"
    /\ at_request = IdleRequest
    /\ at_remote = QuietRemote
    /\ at_outcome = NoOutcome

\* api/publish.py lines 55-64: publish is invoked on the publisher the
\* factory made for the request's platform, whatever payload the request
\* carries.
InitAttempt ==
    /\ at_request \in {r \in PublicationRequests : PublisherClass(r.platform) # "None"}
    /\ at_publisher = PublisherClass(at_request.platform)
    /\ at_remote \in RemoteBehaviours
    /\ at_outcome = NoOutcome

\* base.py line 171: one invocation of self.publish(request).
PublishAttempt ==
    /\ at_outcome = NoOutcome
    /\ at_outcome' = Publish(at_publisher, at_request, at_remote, Uuid(1))
    /\ UNCHANGED <<extVars, wfVars, rpVars, lcVars, ccVars, bkVars, bpVars, fcVars, psVars,
                   capVars, at_publisher, at_request, at_remote>>

\* ------------------------------------------------ the other parts at rest

NoBulkPublishRequest == [publications |-> <<>>, stop_on_first_error |-> FALSE]

NoBulkPublishResponse ==
    [kind |-> "None", total |-> 0, successful |-> 0, failed |-> 0, results |-> <<>>]

BulkPublishIdle ==
    /\ bulk_publish_request = NoBulkPublishRequest
    /\ bp_pc = "idle"
    /\ bp_idx = 1
    /\ bp_results = <<>>
    /\ bp_successful = 0
    /\ bp_failed = 0
    /\ retry_publish_calls = <<>>
    /\ bulk_publish_response = NoBulkPublishResponse

PlatformsIdle ==
    /\ remote_credentials = [p \in {"wordpress", "instagram"} |-> "accepted"]
    /\ validate_log = <<>>
    /\ platform_statuses = <<>>

CaptionIdle ==
    /\ caption = <<>>
    /\ hashtags = <<>>
    /\ full_caption_result = <<"None">>

\* ====================================================== POST publish/bulk

\* The publications of the bulk requests: WordPress with and without its
\* payload, Instagram with its payload, and Facebook, which has settings but
\* no registered publisher.
BulkPublications ==
    {r \in PublicationRequests :
        /\ r.platform \in {"wordpress", "instagram", "facebook"}
        /\ r.wordpress_data.featured_image_url = "None"
        /\ r.wordpress_data.present => r.platform = "wordpress"
        /\ r.instagram_data.present <=> r.platform = "instagram"}

\* models/publication.py lines 135-149, with lists of up to
\* MaxBulkPublications entries.
BulkPublicationRequests ==
    [publications : UNION {[1..n -> BulkPublications] : n \in 1..MaxBulkPublications},
     stop_on_first_error : BOOLEAN]

\* What a remote platform does during one attempt of a bulk request: every
\* call succeeds, or the post and the container creation fail.
BulkRemotes ==
    {QuietRemote, [QuietRemote EXCEPT !.post = "http_status_error", !.container = "fail"]}

\* base.py lines 166-191 from attempt k on: the response retry_publish
\* returns and the number of uuid4 values drawn when it returns.
RECURSIVE RetryPublishFrom(_, _, _, _, _, _, _)
RetryPublishFrom(publisher, req, remotes, k, n, last, drawn) ==
    IF ~LoopContinues(k, n)
    THEN [response |-> create_response(publisher, "failed_" \o req.platform, "failed",
                                       "None", "None", FailedAfterMessage(n, last)),
          drawn |-> drawn]
    ELSE LET o == Publish(publisher, req, remotes[k], Uuid(drawn + 1))
             d == IF o.raised THEN drawn ELSE drawn + 1
         IN IF Succeeded(o)
            THEN [response |-> o.response, drawn |-> d]
            ELSE RetryPublishFrom(publisher, req, remotes, k + 1, n,
                                  LastErrorAfter(last, o), d)

\* The loop going on after any result.
BreaksAfter_Never(stop_on_first_error, status) == FALSE

\* api/publish.py lines 123-131: the loop is left after a result that is not
\* published when the request asks for it.
BreaksAfter(stop_on_first_error, status) ==
    stop_on_first_error /\ status # "published"

\* api/publish.py lines 96-101.
bulk_publish ==
    /\ bp_pc = "idle"
    /\ \E req \in BulkPublicationRequests : bulk_publish_request' = req
    /\ bp_pc' = "loop"
    /\ bp_idx' = 1
    /\ bp_results' = <<>>
    /\ bp_successful' = 0
    /\ bp_failed' = 0
    /\ UNCHANGED <<extVars, wfVars, rpVars, lcVars, ccVars, bkVars, fcVars, atVars, psVars,
                   capVars, retry_publish_calls, bulk_publish_response>>

\* api/publish.py lines 103-138: one pass of the loop, the whole of
\* retry_publish with its default parameters included. bp_idx moves on even
\* when the pass leaves the loop.
BulkPublishPass ==
    /\ bp_pc = "loop"
    /\ bp_idx <= Len(bulk_publish_request.publications)
    /\ bp_idx' = bp_idx + 1
    /\ LET pub == bulk_publish_request.publications[bp_idx]
           stop == bulk_publish_request.stop_on_first_error
           made == create_publisher(pub.platform,
                                    platform_config(pub.platform, WORDPRESS_URL))
       IN IF ~get_platform_config(pub.platform, configured) \/ made.kind = "None"
          THEN UNCHANGED <<bp_pc, bp_results, bp_successful, bp_failed,
                           retry_publish_calls, uuid_next>>
          ELSE IF made.kind = "raised"
          THEN /\ bp_failed' = bp_failed + 1
               /\ bp_pc' = IF stop THEN "return" ELSE "loop"
               /\ UNCHANGED <<bp_results, bp_successful, retry_publish_calls, uuid_next>>
          ELSE \E remotes \in [1..DEFAULT_MAX_ATTEMPTS -> BulkRemotes] :
                  LET r == RetryPublishFrom(made.platform_type, pub, remotes, 1,
                                            DEFAULT_MAX_ATTEMPTS, "None", uuid_next)
                  IN /\ retry_publish_calls' = Append(retry_publish_calls, bp_idx)
                     /\ bp_results' = Append(bp_results, r.response)
                     /\ uuid_next' = r.drawn
                     /\ IF r.response.status = "published"
                        THEN /\ bp_successful' = bp_successful + 1
                             /\ UNCHANGED <<bp_failed, bp_pc>>
                        ELSE /\ bp_failed' = bp_failed + 1
                             /\ bp_pc' = IF BreaksAfter(stop, r.response.status)
                                         THEN "return" ELSE "loop"
                             /\ UNCHANGED bp_successful
    /\ UNCHANGED <<extVars, wfVars, lcVars, ccVars, bkVars, fcVars, atVars, psVars, capVars,
                   request, configured, WORDPRESS_URL, rp_pc, max_attempts, delay,
                   attempt, last_error, publish_log, sleeps, endpoint_result,
                   bulk_publish_request, bulk_publish_response>>

\* The response reporting as failed every publication that was not successful.
BulkPublicationResponse_FailedIsRest(total, successful, failed, results) ==
    [kind |-> "response", total |-> total, successful |-> successful,
     failed |-> total - successful, results |-> results]

\* models/publication.py lines 152-166: the response model of bulk_publish.
BulkPublicationResponse(total, successful, failed, results) ==
    [kind |-> "response", total |-> total, successful |-> successful,
     failed |-> failed, results |-> results]

\* api/publish.py lines 140-145.
BulkPublishReturn ==
    /\ \/ bp_pc = "return"
       \/ bp_pc = "loop" /\ bp_idx > Len(bulk_publish_request.publications)
    /\ bulk_publish_response' =
          BulkPublicationResponse(Len(bulk_publish_request.publications),
                                  bp_successful, bp_failed, bp_results)
    /\ bp_pc' = "done"
    /\ UNCHANGED <<extVars, wfVars, rpVars, lcVars, ccVars, bkVars, fcVars, atVars, psVars,
                   capVars, bulk_publish_request, bp_idx, bp_results, bp_successful,
                   bp_failed, retry_publish_calls>>

\* ============================== validate_credentials and GET platforms

\* What the remote API makes of a publisher's credentials.
CredentialStates == {"accepted", "rejected", "unreachable"}

\* publishers/__init__.py lines 75-83 listing every PlatformType.
get_supported_platforms_All == <<"wordpress", "instagram", "facebook", "x", "linkedin">>

\* publishers/__init__.py lines 75-83: the keys of the registry, in order.
get_supported_platforms == <<"wordpress", "instagram">>

\* wordpress.py lines 304-323, instagram.py lines 241-273: true only when
\* the GET is answered with 200; an error status and an exception give false.
validate_credentials(platform, remote) == remote[platform] = "accepted"

\* A validation request that makes the remote API lock the account.
RemoteAfterValidate_Locks(platform, remote) ==
    [remote EXCEPT ![platform] = "rejected"]

\* wordpress.py line 313, instagram.py line 251: the request is a GET, which
\* leaves the remote state as it is.
RemoteAfterValidate(platform, remote) == remote

\* One call of validate_credentials as it appears in validate_log.
ValidateEvent(platform, caller, remote) ==
    [event |-> "validate", platform |-> platform, caller |-> caller, method |-> "GET",
     result |-> validate_credentials(platform, remote)]

\* The remote state of a platform changed, as it appears in validate_log.
RemoteChangeEvent(platform) ==
    [event |-> "remote change", platform |-> platform, caller |-> "None",
     method |-> "None", result |-> FALSE]

\* api/publish.py lines 170-193: the PlatformStatus of one platform; made is
\* what create_publisher did, valid what validate_credentials returned.
PlatformStatus(platform, is_configured, made, valid) ==
    [platform |-> platform,
     configured |-> is_configured,
     available |-> is_configured /\ made.kind = "publisher" /\ valid,
     error_message |->
        IF ~is_configured THEN "Platform not configured"
        ELSE IF made.kind = "raised" THEN made.error
        ELSE IF made.kind = "publisher" /\ ~valid THEN "Credentials validation failed"
        ELSE "None"]

\* Line 176-178: whether the handler calls validate_credentials for a platform.
Validates(platform, conf, url) ==
    /\ get_platform_config(platform, conf)
    /\ create_publisher(platform, platform_config(platform, url)).kind = "publisher"

\* The handler's loop from entry k of the supported platforms on: the
\* statuses appended, the validate_credentials calls made, and the remote
\* state they leave.
RECURSIVE StatusLoop(_, _, _, _, _)
StatusLoop(platforms, k, conf, url, remote) ==
    IF k > Len(platforms)
    THEN [statuses |-> <<>>, calls |-> <<>>, remote |-> remote]
    ELSE LET p == platforms[k]
             made == create_publisher(p, platform_config(p, url))
             called == Validates(p, conf, url)
             valid == called /\ validate_credentials(p, remote)
             after == IF called THEN RemoteAfterValidate(p, remote) ELSE remote
             rest == StatusLoop(platforms, k + 1, conf, url, after)
         IN [statuses |-> <<PlatformStatus(p, get_platform_config(p, conf), made, valid)>>
                             \o rest.statuses,
             calls |-> (IF called THEN <<ValidateEvent(p, "get_platform_status", remote)>>
                        ELSE <<>>) \o rest.calls,
             remote |-> rest.remote]

InitPlatforms ==
    /\ remote_credentials \in [{"wordpress", "instagram"} -> CredentialStates]
    /\ validate_log = <<>>
    /\ platform_statuses = <<>>

\* api/publish.py lines 161-194: GET platforms, the whole handler.
get_platform_status ==
    /\ platform_statuses = <<>>
    /\ LET r == StatusLoop(get_supported_platforms, 1, configured, WORDPRESS_URL,
                           remote_credentials)
       IN /\ platform_statuses' = r.statuses
          /\ validate_log' = validate_log \o r.calls
          /\ remote_credentials' = r.remote
    /\ UNCHANGED <<extVars, wfVars, rpVars, lcVars, ccVars, bkVars, bpVars, fcVars, atVars, capVars>>

\* One call of validate_credentials on a publisher outside the handler.
ValidateCredentials ==
    /\ Len(validate_log) < MaxValidateEvents
    /\ \E p \in {"wordpress", "instagram"} :
          /\ validate_log' = Append(validate_log, ValidateEvent(p, "direct", remote_credentials))
          /\ remote_credentials' = RemoteAfterValidate(p, remote_credentials)
    /\ UNCHANGED <<extVars, wfVars, rpVars, lcVars, ccVars, bkVars, bpVars, fcVars, atVars, capVars,
                   platform_statuses>>

\* The remote platform revokes or restores credentials, or goes off line or
\* comes back.
RemoteChanges ==
    /\ Len(validate_log) < MaxValidateEvents
    /\ \E p \in {"wordpress", "instagram"} :
       \E v \in CredentialStates \ {remote_credentials[p]} :
          /\ remote_credentials' = [remote_credentials EXCEPT ![p] = v]
          /\ validate_log' = Append(validate_log, RemoteChangeEvent(p))
    /\ UNCHANGED <<extVars, wfVars, rpVars, lcVars, ccVars, bkVars, bpVars, fcVars, atVars, capVars,
                   platform_statuses>>

\* ========================================== InstagramPostData.full_caption

\* A string of n times the character c.
Rep(c, n) == [i \in 1..n |-> c]

\* Caption lengths: empty, one character, and the last MaxCaptionSlack
\* lengths up to the 2200 that the field's max_length allows.
CaptionLengths == {0, 1} \cup ((CAPTION_LIMIT - MaxCaptionSlack)..CAPTION_LIMIT)

Captions == {Rep("a", n) : n \in CaptionLengths}

\* Hashtags are free strings, the empty one included.
Hashtags == {<<>>, <<"x">>, <<"y", "z">>}

HashtagLists == UNION {[1..n -> Hashtags] : n \in 0..MaxHashtags}

\* ' '.join([f"#{tag}" for tag in self.hashtags])
RECURSIVE HashtagStr(_)
HashtagStr(tags) ==
    IF tags = <<>> THEN <<>>
    ELSE <<"#">> \o Head(tags)
            \o (IF Tail(tags) = <<>> THEN <<>> ELSE <<" ">> \o HashtagStr(Tail(tags)))

\* s[:n]
Take(s, n) == SubSeq(s, 1, IF Len(s) < n THEN Len(s) ELSE n)

\* full_caption returning the combined text as it is.
full_caption_Untruncated(cap, tags) ==
    IF tags # <<>> THEN cap \o <<"\n", "\n">> \o HashtagStr(tags) ELSE cap

\* models/publication.py lines 50-58.
full_caption(cap, tags) ==
    Take(IF tags # <<>> THEN cap \o <<"\n", "\n">> \o HashtagStr(tags) ELSE cap,
         CAPTION_LIMIT)

\* The property has not been read.
NoCaption == <<"None">>

InitCaption ==
    /\ caption \in Captions
    /\ hashtags \in HashtagLists
    /\ full_caption_result = NoCaption

\* One read of the property full_caption.
ReadFullCaption ==
    /\ full_caption_result = NoCaption
    /\ full_caption_result' = full_caption(caption, hashtags)
    /\ UNCHANGED <<extVars, wfVars, rpVars, lcVars, ccVars, bkVars, bpVars, fcVars, atVars, psVars,
                   caption, hashtags>>

\* ===================================== WordPress publish with categories and tags

\* Lists of distinct names of S.
DistinctLists(S) ==
    {q \in UNION {[1..n -> S] : n \in 0..Cardinality(S)} :
        \A a, b \in DOMAIN q : a # b => q[a] # q[b]}

\* What the remote site does during one WordPress attempt.
WordPressRemotes ==
    {[QuietRemote EXCEPT !.image = im, !.post = po] :
        im \in {"ok", "fail", "upload_fail"},
        po \in {"ok", "http_status_error", "exception"}}

TermsIdle ==
    /\ wp_categories = <<>>
    /\ wp_tags = <<>>
    /\ wp_terms = AllTermsFound

\* models/publication.py lines 25-41: a WordPress request with its payload,
\* with or without a featured image, categories and tags.
InitTerms ==
    /\ at_publisher = "wordpress"
    /\ at_request \in {r \in PublicationRequests :
                          /\ r.platform = "wordpress"
                          /\ r.wordpress_data.present
                          /\ ~r.instagram_data.present}
    /\ at_remote \in WordPressRemotes
    /\ at_outcome = NoOutcome
    /\ wp_categories \in DistinctLists(CategoryNames)
    /\ wp_tags \in DistinctLists(TagNames)
    /\ wp_terms \in TermRemotes

\* wordpress.py lines 62-159: one invocation of WordPressPublisher.publish.
WordPressPublishAttempt ==
    /\ at_outcome = NoOutcome
    /\ at_outcome' = WordPressPublishTerms(at_request.wordpress_data, wp_categories,
                                          wp_tags, at_remote, wp_terms, Uuid(1))
    /\ UNCHANGED <<wfVars, rpVars, lcVars, ccVars, bkVars, bpVars, fcVars, psVars,
                   capVars, tmVars, saVars, tkVars, rlVars, at_publisher, at_request,
                   at_remote>>

\* ============================== content service: the in-memory task tracker

\* content.py line 85: the n-th task id drawn.
TaskIds == {Uuid(n) : n \in 1..MaxTasks}

\* models/article.py lines 209-219, the fields the background function writes.
\* content.py lines 87-92: the status a new task is stored with.
PendingStatus ==
    [status |-> "pending", progress |-> 0, message |-> "Task queued for processing",
     result |-> "None", error |-> "None"]

\* What content_generator.generate_article does for a task: it returns the
\* article or raises.
GenerationOutcomes == {"article", "raises"}

TrackerIdle ==
    /\ tasks = <<>>
    /\ tasks_created = 0
    /\ bg_pc = [id \in TaskIds |-> "none"]
    /\ bg_unhandled = [id \in TaskIds |-> "None"]
    /\ deleted_ids = {}

\* content.py line 29: the module starts with an empty dict.
InitTracker == TrackerIdle

\* content.py lines 71-105: POST generate-async stores the pending status and
\* schedules the background function.
generate_article_async ==
    /\ tasks_created < MaxTasks
    /\ tasks_created' = tasks_created + 1
    /\ LET task_id == Uuid(tasks_created + 1) IN
       /\ tasks' = (task_id :> PendingStatus) @@ tasks
       /\ bg_pc' = [bg_pc EXCEPT ![task_id] = "scheduled"]
    /\ UNCHANGED <<wfVars, rpVars, lcVars, ccVars, bkVars, bpVars, fcVars, atVars,
                   psVars, capVars, tmVars, saVars, rlVars, bg_unhandled, deleted_ids>>

\* content.py lines 144-158: DELETE status/{task_id} of a stored task. An
\* unknown id is answered 404 and changes nothing.
delete_task(task_id) ==
    /\ task_id \in DOMAIN tasks
    /\ tasks' = [id \in DOMAIN tasks \ {task_id} |-> tasks[id]]
    /\ deleted_ids' = deleted_ids \cup {task_id}
    /\ UNCHANGED <<wfVars, rpVars, lcVars, ccVars, bkVars, bpVars, fcVars, atVars,
                   psVars, capVars, tmVars, saVars, rlVars, tasks_created, bg_pc,
                   bg_unhandled>>

\* content.py lines 207-210: the except branch of the background function.
\* tasks[task_id] of a deleted task raises KeyError inside the handler, and
\* that exception leaves the function.
FailedAfter(store, task_id, msg) ==
    IF task_id \in DOMAIN store
    THEN [store |-> [store EXCEPT ![task_id].status = "failed",
                                  ![task_id].progress = 0,
                                  ![task_id].message = "Article generation failed",
                                  ![task_id].error = msg],
          unhandled |-> "None"]
    ELSE [store |-> store, unhandled |-> "KeyError"]

\* content.py lines 183-195: the background function up to its await. With
\* the task deleted, line 185 raises KeyError into the except branch.
BackgroundStart(task_id) ==
    /\ bg_pc[task_id] = "scheduled"
    /\ IF task_id \in DOMAIN tasks
       THEN /\ tasks' = [tasks EXCEPT ![task_id].status = "processing",
                                      ![task_id].progress = 30,
                                      ![task_id].message = "Analyzing SEO and keywords..."]
            /\ bg_pc' = [bg_pc EXCEPT ![task_id] = "generating"]
            /\ UNCHANGED bg_unhandled
       ELSE LET h == FailedAfter(tasks, task_id, "KeyError") IN
            /\ tasks' = h.store
            /\ bg_unhandled' = [bg_unhandled EXCEPT ![task_id] = h.unhandled]
            /\ bg_pc' = [bg_pc EXCEPT ![task_id] = "returned"]
    /\ UNCHANGED <<wfVars, rpVars, lcVars, ccVars, bkVars, bpVars, fcVars, atVars,
                   psVars, capVars, tmVars, saVars, rlVars, tasks_created, deleted_ids>>

\* content.py lines 195-212: the background function from the end of its
\* await on. With the task deleted, line 198 raises KeyError into the except
\* branch.
BackgroundFinish(task_id) ==
    /\ bg_pc[task_id] = "generating"
    /\ bg_pc' = [bg_pc EXCEPT ![task_id] = "returned"]
    /\ \E outcome \in GenerationOutcomes :
          IF outcome = "article" /\ task_id \in DOMAIN tasks
          THEN /\ tasks' = [tasks EXCEPT ![task_id].status = "completed",
                                         ![task_id].progress = 100,
                                         ![task_id].message = "Article generated successfully",
                                         ![task_id].result = "article"]
               /\ UNCHANGED bg_unhandled
          ELSE LET h == FailedAfter(tasks, task_id,
                                    IF outcome = "article" THEN "KeyError"
                                    ELSE "generation failed") IN
               /\ tasks' = h.store
               /\ bg_unhandled' = [bg_unhandled EXCEPT ![task_id] = h.unhandled]
    /\ UNCHANGED <<wfVars, rpVars, lcVars, ccVars, bkVars, bpVars, fcVars, atVars,
                   psVars, capVars, tmVars, saVars, rlVars, tasks_created, deleted_ids>>

\* ================================================ RateLimiter.check_rate_limit

\* The application instances sharing one Redis. check_rate_limit holds no
\* await, so the calls of one instance run one after the other; the calls of
\* different instances interleave at every Redis command.
Instances == {1, 2}

\* The counter key of one client and one endpoint is absent.
NoKey == [exists |-> FALSE, count |-> 0, expires |-> FALSE]

\* What GET returned: None for an absent key, the stored count otherwise.
NotFound == [found |-> FALSE, value |-> 0]
Found(count) == [found |-> TRUE, value |-> count]

RateLimitIdle ==
    /\ rl_rate = 1
    /\ redis_key = NoKey
    /\ rl_pc = [i \in Instances |-> "idle"]
    /\ rl_current = [i \in Instances |-> NotFound]
    /\ rl_requests = 0
    /\ rl_admitted = 0
    /\ rl_rejected = 0

\* rate_limiter.py lines 25-41 and 97: the rate in force; the key is absent
\* before the client's first request.
InitRateLimit ==
    /\ rl_rate \in 1..MaxRate
    /\ redis_key = NoKey
    /\ rl_pc = [i \in Instances |-> "idle"]
    /\ rl_current = [i \in Instances |-> NotFound]
    /\ rl_requests = 0
    /\ rl_admitted = 0
    /\ rl_rejected = 0

\* rate_limiter.py lines 97-111: a request of the client reaches instance i,
\* which reads the counter.
RedisGet(i) ==
    /\ rl_pc[i] = "idle"
    /\ rl_requests < MaxRequests
    /\ rl_requests' = rl_requests + 1
    /\ rl_current' = [rl_current EXCEPT ![i] = IF redis_key.exists
                                                THEN Found(redis_key.count)
                                                ELSE NotFound]
    /\ rl_pc' = [rl_pc EXCEPT ![i] = "read"]
    /\ UNCHANGED <<wfVars, rpVars, lcVars, ccVars, bkVars, bpVars, fcVars, atVars,
                   psVars, capVars, tmVars, saVars, tkVars, rl_rate, redis_key,
                   rl_admitted, rl_rejected>>

\* rate_limiter.py lines 113-116: SETEX key period 1, then the request is let
\* through.
RedisSetex(i) ==
    /\ rl_pc[i] = "read"
    /\ ~rl_current[i].found
    /\ redis_key' = [exists |-> TRUE, count |-> 1, expires |-> TRUE]
    /\ rl_admitted' = rl_admitted + 1
    /\ rl_pc' = [rl_pc EXCEPT ![i] = "idle"]
    /\ UNCHANGED <<wfVars, rpVars, lcVars, ccVars, bkVars, bpVars, fcVars, atVars,
                   psVars, capVars, tmVars, saVars, tkVars, rl_rate, rl_current,
                   rl_requests, rl_rejected>>

\* rate_limiter.py lines 118-132: the count read has reached the rate; the
\* request is answered 429.
Reject(i) ==
    /\ rl_pc[i] = "read"
    /\ rl_current[i].found
    /\ rl_current[i].value >= rl_rate
    /\ rl_rejected' = rl_rejected + 1
    /\ rl_pc' = [rl_pc EXCEPT ![i] = "idle"]
    /\ UNCHANGED <<wfVars, rpVars, lcVars, ccVars, bkVars, bpVars, fcVars, atVars,
                   psVars, capVars, tmVars, saVars, tkVars, rl_rate, redis_key,
                   rl_current, rl_requests, rl_admitted>>

\* Redis INCR: adds one and keeps the expiry of an existing key; creates an
\* absent key with value 1 and no expiry.
Incr(key) ==
    IF ~key.exists
    THEN [exists |-> TRUE, count |-> 1, expires |-> FALSE]
    ELSE [key EXCEPT !.count = key.count + 1]

\* rate_limiter.py lines 134-136: INCR key, then the request is let through.
RedisIncr(i) ==
    /\ rl_pc[i] = "read"
    /\ rl_current[i].found
    /\ rl_current[i].value < rl_rate
    /\ redis_key' = Incr(redis_key)
    /\ rl_admitted' = rl_admitted + 1
    /\ rl_pc' = [rl_pc EXCEPT ![i] = "idle"]
    /\ UNCHANGED <<wfVars, rpVars, lcVars, ccVars, bkVars, bpVars, fcVars, atVars,
                   psVars, capVars, tmVars, saVars, tkVars, rl_rate, rl_current,
                   rl_requests, rl_rejected>>

\* The period set by SETEX has passed: Redis drops the key and a new window
\* begins. A key without expiry is never dropped.
KeyExpires ==
    /\ redis_key.exists
    /\ redis_key.expires
    /\ redis_key' = NoKey
    /\ rl_admitted' = 0
    /\ UNCHANGED <<wfVars, rpVars, lcVars, ccVars, bkVars, bpVars, fcVars, atVars,
                   psVars, capVars, tmVars, saVars, tkVars, rl_rate, rl_pc, rl_current,
                   rl_requests, rl_rejected>>

AnswersIdle == service_answers = <<>>

\* The parts added to the publishing service's remaining parts, at rest.
ExtIdle == TermsIdle /\ AnswersIdle /\ TrackerIdle /\ RateLimitIdle

\* =========================================================== specifications

\* No request has reached the publish endpoint.
EndpointIdle ==
    /\ request = [platform |-> "wordpress",
                  wordpress_data |-> [present |-> FALSE, featured_image_url |-> "None"],
                  instagram_data |-> [present |-> FALSE]]
    /\ rp_pc = "idle"
    /\ max_attempts = 0
    /\ delay = 0
    /\ attempt = 1
    /\ last_error = "None"
    /\ publish_log = <<>>
    /\ sleeps = <<>>
    /\ uuid_next = 0
    /\ endpoint_result = NoEndpointResult

\* config.py lines 27-66: the settings the service starts with.
InitSettings ==
    /\ configured \in SUBSET {"wordpress", "instagram", "facebook"}
    /\ WORDPRESS_URL \in SettingsUrls(configured)

\* The publishing service at rest, for the orchestrator's specification.
PublishIdle ==
    /\ configured = {}
    /\ WORDPRESS_URL = <<>>
    /\ EndpointIdle

\* The publishing service's remaining parts at rest.
ServiceIdle ==
    BulkPublishIdle /\ FactoryIdle /\ AttemptIdle /\ PlatformsIdle /\ CaptionIdle

InitW == InitWorkflow /\ PublishIdle /\ ConcurrentIdle /\ BulkIdle /\ ExtIdle /\ ServiceIdle

NextWorkflow ==
    \/ execute_workflow
    \/ WorkerStart
    \/ UpdateInitializing
    \/ UpdateGenerating
    \/ GenerateContent
    \/ UpdatePublishing
    \/ SkipPublishing
    \/ PublishTarget
    \/ UpdateCompleted
    \/ ReturnCompleted
    \/ GetWorkflowStatus

SpecWorkflow == InitW /\ [][NextWorkflow]_vars

\* The task together with cancellation, worker loss, the time limit, an
\* unreachable backend and result expiry.
NextLifecycle ==
    \/ execute_workflow_short
    \/ WorkerStart
    \/ UpdateInitializing
    \/ UpdateGenerating
    \/ GenerateContent
    \/ UpdatePublishing
    \/ SkipPublishing
    \/ PublishTarget
    \/ UpdateCompleted
    \/ ReturnCompleted
    \/ GetWorkflowStatus
    \/ cancel_workflow
    \/ WorkerRevokes
    \/ WorkerLost
    \/ TimeLimitKill
    \/ UpdateStateRaises
    \/ ResultExpires

SpecLifecycle == InitW /\ [][NextLifecycle]_vars

InitP == InitWorkflow /\ InitPublish /\ ConcurrentIdle /\ BulkIdle /\ ExtIdle /\ ServiceIdle

NextPublish ==
    \/ publish_content
    \/ RetryAttempt
    \/ RetryExhausted

SpecPublish == InitP /\ [][NextPublish]_vars

InitC == InitWorkflow /\ PublishIdle /\ InitConcurrent /\ BulkIdle /\ ExtIdle /\ ServiceIdle

NextConcurrent ==
    \E call \in Calls :
       \/ retry_publish(call)
       \/ ConcurrentRetryAttempt(call)
       \/ ConcurrentRetryExhausted(call)

SpecConcurrent == InitC /\ [][NextConcurrent]_vars

NextBulk ==
    \/ execute_bulk_workflows
    \/ BulkSubmit
    \/ BulkSubmitRaises
    \/ BulkReturn

SpecBulk == InitW /\ [][NextBulk]_vars

\* Everything but the part a specification of the publishing service is about.
OthersIdle == InitWorkflow /\ PublishIdle /\ ConcurrentIdle /\ BulkIdle /\ ExtIdle

InitF == OthersIdle /\ BulkPublishIdle /\ InitFactory /\ AttemptIdle /\ PlatformsIdle
         /\ CaptionIdle

NextFactory == CreatePublisher

SpecFactory == InitF /\ [][NextFactory]_vars

InitA == OthersIdle /\ BulkPublishIdle /\ FactoryIdle /\ InitAttempt /\ PlatformsIdle
         /\ CaptionIdle

NextAttempt == PublishAttempt

SpecAttempt == InitA /\ [][NextAttempt]_vars

InitBP == InitWorkflow /\ InitSettings /\ EndpointIdle /\ ConcurrentIdle /\ BulkIdle /\ ExtIdle
          /\ BulkPublishIdle /\ FactoryIdle /\ AttemptIdle /\ PlatformsIdle /\ CaptionIdle

NextBulkPublish ==
    \/ bulk_publish
    \/ BulkPublishPass
    \/ BulkPublishReturn

SpecBulkPublish == InitBP /\ [][NextBulkPublish]_vars

InitPS == InitWorkflow /\ InitSettings /\ EndpointIdle /\ ConcurrentIdle /\ BulkIdle /\ ExtIdle
          /\ BulkPublishIdle /\ FactoryIdle /\ AttemptIdle /\ InitPlatforms /\ CaptionIdle

NextPlatforms ==
    \/ get_platform_status
    \/ ValidateCredentials
    \/ RemoteChanges

SpecPlatforms == InitPS /\ [][NextPlatforms]_vars

InitCap == OthersIdle /\ BulkPublishIdle /\ FactoryIdle /\ AttemptIdle /\ PlatformsIdle
           /\ InitCaption

NextCaption == ReadFullCaption

SpecCaption == InitCap /\ [][NextCaption]_vars

InitT == InitWorkflow /\ PublishIdle /\ ConcurrentIdle /\ BulkIdle /\ BulkPublishIdle
         /\ FactoryIdle /\ PlatformsIdle /\ CaptionIdle /\ InitTerms /\ AnswersIdle
         /\ TrackerIdle /\ RateLimitIdle

NextWordPress == WordPressPublishAttempt

SpecWordPress == InitT /\ [][NextWordPress]_vars

InitTk == InitWorkflow /\ PublishIdle /\ ConcurrentIdle /\ BulkIdle /\ ServiceIdle
          /\ TermsIdle /\ AnswersIdle /\ InitTracker /\ RateLimitIdle

NextTracker ==
    \/ generate_article_async
    \/ \E task_id \in TaskIds :
          \/ delete_task(task_id)
          \/ BackgroundStart(task_id)
          \/ BackgroundFinish(task_id)

SpecTracker == InitTk /\ [][NextTracker]_vars

InitRL == InitWorkflow /\ PublishIdle /\ ConcurrentIdle /\ BulkIdle /\ ServiceIdle
          /\ TermsIdle /\ AnswersIdle /\ TrackerIdle /\ InitRateLimit

NextRateLimit ==
    \/ \E i \in Instances :
          \/ RedisGet(i)
          \/ RedisSetex(i)
          \/ Reject(i)
          \/ RedisIncr(i)
    \/ KeyExpires

SpecRateLimit == InitRL /\ [][NextRateLimit]_vars

\* ============================================= properties of the workflow task

GenSucceeded == gen_outcome \in {"ok", "ok_no_image"}

GenFailed == gen_outcome \in {"error_payload", "empty", "null",
                              "http_status_error", "exception"}

NumTargets == Len(workflow_data.publishing_targets)

\* C1: with auto_publish set and content generated, the publishing loop calls
\* publish_content_sync once per target, in order, and appends exactly one
\* entry per target whether the call returned a failure or raised; the task
\* ends completed with one entry per target.
C1_EveryTargetAttemptedOnce ==
    (GenSucceeded /\ workflow_data.auto_publish
        /\ wf_pc \in {"loop", "l84", "l89", "done"}) =>
       /\ publish_sync_calls = [i \in 1..(target_idx - 1) |-> i]
       /\ Len(publishing_results) = target_idx - 1
       /\ \A i \in 1..Len(publishing_results) :
             publishing_results[i].platform = workflow_data.publishing_targets[i].platform
       /\ wf_pc # "loop" => target_idx - 1 = NumTargets
       /\ wf_pc = "done" =>
             /\ backend_result.status = "completed"
             /\ backend_result.publishing_results = publishing_results

\* Three targets: the first call raised, the second returned a failure, the
\* third published.
C1_Witness ==
    /\ wf_pc = "done"
    /\ workflow_data.auto_publish
    /\ NumTargets = 3
    /\ Len(backend_result.publishing_results) = 3
    /\ backend_result.publishing_results[1].error_message = "SoftTimeLimitExceeded()"
    /\ backend_result.publishing_results[2].error_message = "HTTP 500: Failed to publish"
    /\ backend_result.publishing_results[3].success

\* C2: after a task whose content generation failed has finished, a status
\* query reports failed with the cause, not published / content_generated.
C2_ContentFailureReportedFailed ==
    (status_query_pc = "done" /\ GenFailed) =>
       /\ status_response.status = "failed"
       /\ status_response.error_message = backend_result.error_message
       /\ ~status_response.content_generated

\* C3: when the content collaborator raises, answers an error payload or
\* answers nothing, the task ends at once with a failed result carrying a
\* message and no publishing_results key, and no publish call was made.
C3_ContentFailureFailsTask ==
    GenFailed =>
       /\ wf_pc = "done"
       /\ backend_state = "SUCCESS"
       /\ backend_result.status = "failed"
       /\ backend_result.error_message \notin {"None", ""}
       /\ "publishing_results" \notin backend_result.keys
       /\ publish_sync_calls = <<>>
       /\ http_publish_calls = <<>>

C3_Witness ==
    /\ wf_pc = "done"
    /\ gen_outcome = "null"
    /\ workflow_data.auto_publish
    /\ backend_result.status = "failed"

\* C10: with auto_publish unset and content generated, the task ends
\* completed with an empty publishing_results list and never calls
\* publish_content_sync nor the publishing service.
C10_NoAutoPublishNoCalls ==
    (GenSucceeded /\ ~workflow_data.auto_publish) =>
       /\ publish_sync_calls = <<>>
       /\ http_publish_calls = <<>>
       /\ wf_pc \in {"l57", "l84", "l89", "done"}
       /\ wf_pc = "done" =>
             /\ backend_result.status = "completed"
             /\ "publishing_results" \in backend_result.keys
             /\ backend_result.publishing_results = <<>>

C10_Witness ==
    /\ wf_pc = "done"
    /\ GenSucceeded
    /\ ~workflow_data.auto_publish
    /\ NumTargets = 2
    /\ backend_result.status = "completed"

\* The answer the publishing service gave for target i, "None" when no POST
\* was issued for it or none was answered.
AnswerFor(i) ==
    IF \E j \in DOMAIN service_answers : service_answers[j].target = i
    THEN LET j == CHOOSE j \in DOMAIN service_answers : service_answers[j].target = i
         IN service_answers[j].answer
    ELSE "None"

PostIssuedFor(i) == \E j \in DOMAIN http_publish_calls : http_publish_calls[j] = i

\* C35: a publishing target whose platform is neither wordpress nor
\* instagram yields a result entry with success=false and an 'Unsupported
\* platform' message without any call to the publishing service, and the
\* remaining targets are still processed; for supported platforms the
\* entry's success flag is true exactly when the publishing service answered
\* with status=published.
C35_UnsupportedSkippedSuccessIsPublished ==
    /\ \A i \in DOMAIN publishing_results :
          LET platform == workflow_data.publishing_targets[i].platform
              entry == publishing_results[i]
          IN IF platform \notin {"wordpress", "instagram"}
             THEN /\ ~entry.success
                  /\ entry.error_message = "Unsupported platform: " \o platform
                  /\ ~PostIssuedFor(i)
             ELSE entry.success <=> AnswerFor(i) = "published"
    /\ wf_pc \in {"l84", "l89"} /\ workflow_data.auto_publish =>
          Len(publishing_results) = NumTargets

\* An unsupported target between a published and a failed one, all processed.
C35_Witness ==
    /\ wf_pc = "done"
    /\ NumTargets = 3
    /\ workflow_data.publishing_targets[2].platform = "facebook"
    /\ Len(publishing_results) = 3
    /\ publishing_results[1].success
    /\ publishing_results[2].error_message = "Unsupported platform: facebook"
    /\ ~publishing_results[3].success
    /\ service_answers = <<[target |-> 1, answer |-> "published"],
                           [target |-> 3, answer |-> "failed"]>>

\* ======================================== properties of publish and its retry

NumPublishCalls == Len(publish_log)

\* The invocation of publish returned a response with status published.
ReturnedPublished(o) == ~o.raised /\ o.response.status = "published"

\* The invocations of publish that returned a published response.
PublishedCalls == {k \in 1..NumPublishCalls : ReturnedPublished(publish_log[k])}

\* What a failed invocation reported: the exception's text, or the
\* error_message of the failed response.
AttemptError(o) == IF o.raised THEN o.error ELSE o.response.error_message

\* The request carries no payload for the platform it selects.
PayloadAbsent(req) ==
    \/ req.platform = "wordpress" /\ ~req.wordpress_data.present
    \/ req.platform = "instagram" /\ ~req.instagram_data.present

RetryReturned == rp_pc = "done" /\ endpoint_result.kind = "response"

\* C4: when publish fails N < max_attempts times and then returns a published
\* response, retry_publish has invoked it exactly N+1 times, returns that
\* response unchanged and invokes publish no more: a published response is
\* always the last invocation, and retry_publish gives up on no publisher
\* before max_attempts invocations.
C4_FirstPublishedResponseReturned ==
    /\ PublishedCalls # {} =>
          /\ PublishedCalls = {NumPublishCalls}
          /\ NumPublishCalls <= max_attempts
          /\ RetryReturned
          /\ endpoint_result.response = publish_log[NumPublishCalls].response
    /\ (RetryReturned /\ NumPublishCalls < max_attempts) =>
          PublishedCalls = {NumPublishCalls}

\* Two failed attempts, then a published one, with max_attempts = 3.
C4_Witness ==
    /\ RetryReturned
    /\ max_attempts = 3
    /\ NumPublishCalls = 3
    /\ publish_log[1].response.status = "failed"
    /\ publish_log[2].response.status = "failed"
    /\ endpoint_result.response.status = "published"
    /\ endpoint_result.response.publication_id = Uuid(3)

\* C5: when no invocation of publish yields a published response,
\* retry_publish invokes it exactly max_attempts times and returns a failed
\* response whose error_message names max_attempts.
C5_ExhaustedAfterMaxAttempts ==
    /\ NumPublishCalls <= max_attempts
    /\ (RetryReturned /\ PublishedCalls = {}) =>
          /\ NumPublishCalls = max_attempts
          /\ endpoint_result.response.status = "failed"
          /\ endpoint_result.response.error_message \in
                {FailedAfterMessage(max_attempts, e) :
                    e \in {"None"} \cup {AttemptError(publish_log[k]) :
                                            k \in 1..NumPublishCalls}}

C5_Witness ==
    /\ RetryReturned
    /\ max_attempts = 3
    /\ NumPublishCalls = 3
    /\ \A k \in 1..3 : ~publish_log[k].raised /\ publish_log[k].response.status = "failed"
    /\ endpoint_result.response.status = "failed"

\* C6: after every unsuccessful attempt k < max_attempts, raised or returned,
\* retry_publish sleeps delay*k before the next attempt, and it does not
\* sleep after the last one.
C6_BackoffAfterEveryFailedAttempt ==
    LET failed == {k \in 1..NumPublishCalls :
                      ~ReturnedPublished(publish_log[k]) /\ k < max_attempts}
    IN sleeps = [k \in 1..Cardinality(failed) |-> delay * k]

\* C7: the failed response retry_publish returns after its last attempt
\* embeds the error of that attempt, raised or returned.
C7_LastErrorEmbedded ==
    (RetryReturned /\ PublishedCalls = {} /\ NumPublishCalls >= 1) =>
       endpoint_result.response.error_message =
          FailedAfterMessage(max_attempts, AttemptError(publish_log[NumPublishCalls]))

\* C8: a request without the payload of its platform is attempted at most
\* once, and no backoff sleep follows the validation failure.
C8_ValidationErrorNotRetried ==
    (rp_pc # "idle" /\ PayloadAbsent(request)) =>
       /\ NumPublishCalls <= 1
       /\ sleeps = <<>>

\* C9: for a request whose platform tag has no matching payload, every
\* invocation of publish on the publisher the factory gives for that tag
\* raises the validation error and makes no network call.
C9_MismatchFailsValidationWithoutCalls ==
    (rp_pc # "idle" /\ PayloadAbsent(request)) =>
       /\ \A k \in 1..NumPublishCalls :
             /\ publish_log[k].raised
             /\ publish_log[k].error \in
                   {"WordPress data is required for WordPress publishing",
                    "Instagram data is required for Instagram publishing"}
             /\ publish_log[k].calls = <<>>
       /\ uuid_next = 0
       /\ endpoint_result.response.status # "published"

\* A wordpress-tagged request carrying only an Instagram payload was attempted.
C9_Witness ==
    /\ request.platform = "wordpress"
    /\ ~request.wordpress_data.present
    /\ request.instagram_data.present
    /\ NumPublishCalls >= 1
    /\ publish_log[1].raised
    /\ publish_log[1].calls = <<>>

\* ================================= properties of the task's life in the queue

\* WorkflowStatus values after which the spec allows no further transition.
TerminalStatuses == {"published", "failed", "cancelled"}

NonTerminalAnswer(r) == r.status \notin TerminalStatuses \cup {"None"}

\* C11: between two consecutive status answers for the workflow that both
\* carry a non-terminal status, progress_percentage does not decrease,
\* whatever the task, the workers, the backend and cancel_workflow did in
\* between.
C11_ProgressNeverDecreases ==
    [][(NonTerminalAnswer(status_response) /\ NonTerminalAnswer(status_response'))
          => status_response'.progress_percentage >= status_response.progress_percentage]_vars

\* C12: once cancel_workflow was called on a workflow that had not ended and
\* the backend has recorded the revocation, a status query answers cancelled.
C12_RevokedReportedCancelled ==
    (revoke_sent /\ backend_state = "REVOKED" /\ status_query_pc = "revoked")
        => status_response.status = "cancelled"

\* C13: after a status answer of published or failed, every later answer for
\* the workflow carries the same status, result expiry included.
C13_TerminalAnswerStays ==
    [][status_response.status \in {"published", "failed"}
          => status_response'.status = status_response.status]_vars

\* C14: a status query that reads a completed result answers published,
\* content_generated, the title and word count of the generated content,
\* progress 100 and one projected entry per entry of the task's
\* publishing_results, in order, also when no entry has success set.
C14_CompletedReportedPublished ==
    (status_query_pc = "done" /\ backend_result.status = "completed") =>
       /\ status_response.status = "published"
       /\ status_response.content_generated
       /\ status_response.article_title = content_result.title
       /\ status_response.word_count = content_result.word_count
       /\ status_response.progress_percentage = 100
       /\ Len(status_response.publishing_results) = Len(publishing_results)
       /\ \A i \in 1..Len(publishing_results) :
             /\ status_response.publishing_results[i].platform = publishing_results[i].platform
             /\ status_response.publishing_results[i].success = publishing_results[i].success
             /\ status_response.publishing_results[i].post_id = publishing_results[i].post_id
             /\ status_response.publishing_results[i].post_url = publishing_results[i].post_url
             /\ status_response.publishing_results[i].error_message
                   = publishing_results[i].error_message

\* Three targets, none published, and the query still answers published.
C14_Witness ==
    /\ status_query_pc = "done"
    /\ backend_result.status = "completed"
    /\ Len(backend_result.publishing_results) = 3
    /\ \A i \in 1..3 : ~backend_result.publishing_results[i].success
    /\ status_response.status = "published"
    /\ Len(status_response.publishing_results) = 3

\* A status query is the only step that changes the last answer or the
\* position it was built at.
StatusQueryStep == status_response' # status_response \/ status_query_pc' # status_query_pc

\* C15: a status query maps PENDING to pending, PROGRESS to
\* generating_content with the payload's percentage and step text (the
\* publishing loop included), and every state other than PENDING, PROGRESS,
\* SUCCESS and FAILURE to pending, progress 0, current_step "State: <state>".
C15_StatusProjection ==
    [][StatusQueryStep =>
          /\ backend_state = "PENDING" =>
                /\ status_response'.status = "pending"
                /\ status_response'.progress_percentage = 0
          /\ backend_state = "PROGRESS" =>
                /\ status_response'.status = "generating_content"
                /\ status_response'.progress_percentage = backend_meta.progress
                /\ status_response'.current_step = backend_meta.step
          /\ backend_state \notin {"PENDING", "PROGRESS", "SUCCESS", "FAILURE"} =>
                /\ status_response'.status = "pending"
                /\ status_response'.progress_percentage = 0
                /\ status_response'.current_step = "State: " \o backend_state]_vars

\* A query made inside the publishing loop.
C15_Witness ==
    /\ status_query_pc = "loop"
    /\ backend_state = "PROGRESS"
    /\ status_response.status = "generating_content"
    /\ status_response.progress_percentage = 60
    /\ status_response.current_step = "Publishing content"
    /\ Len(publish_sync_calls) >= 1

\* C16: whenever the body of generate_and_publish has ended by itself, it
\* returned a dict tagged completed or failed; a failed one carries the text
\* of the exception that ended the body and no publishing_results key. The
\* backend records FAILURE only for a task that was killed, never for an
\* exception of the body.
C16_NoExceptionEscapes ==
    /\ (wf_pc = "done" /\ backend_state = "SUCCESS") =>
          /\ backend_result.status \in {"completed", "failed"}
          /\ backend_result.status = "failed" =>
                /\ "error_message" \in backend_result.keys
                /\ "publishing_results" \notin backend_result.keys
                /\ backend_result.error_message
                      = (IF GenFailed THEN ContentFailureMessage(content_result)
                                      ELSE BackendErrorText)
    /\ backend_state = "FAILURE" => wf_pc \in {"killed", "lost"}

\* The backend became unreachable at line 84, after the publishing loop.
C16_Witness ==
    /\ wf_pc = "done"
    /\ backend_result.status = "failed"
    /\ backend_result.error_message = BackendErrorText
    /\ Len(publish_sync_calls) = 2

\* C17: a publish call is issued for target k only when the calls for the
\* targets before it have returned and left their entries, and the entry it
\* leaves at position k carries target k's platform.
C17_TargetsPublishedInOrder ==
    [][publish_sync_calls' # publish_sync_calls =>
          LET k == Len(publish_sync_calls) + 1 IN
          /\ publish_sync_calls' = Append(publish_sync_calls, k)
          /\ Len(publishing_results) = k - 1
          /\ Len(publishing_results') = k
          /\ SubSeq(publishing_results', 1, k - 1) = publishing_results
          /\ \A i \in 1..k :
                publishing_results'[i].platform
                   = workflow_data.publishing_targets[i].platform]_vars

\* Three different platforms, published in the order they were given.
C17_Witness ==
    /\ wf_pc = "done"
    /\ workflow_data.publishing_targets
          = <<[platform |-> "instagram"], [platform |-> "facebook"],
              [platform |-> "wordpress"]>>
    /\ publish_sync_calls = <<1, 2, 3>>
    /\ backend_result.publishing_results[1].platform = "instagram"
    /\ backend_result.publishing_results[3].platform = "wordpress"

\* C18 as stated: no request has its task body entered more than once.
C18_ExecutedAtMostOnce == executions <= 1

\* C18: the task body is entered once per delivery of the request's message:
\* once when no worker is lost, and once more after every worker loss, which
\* puts the message back on the queue.
C18_ExecutedOncePerDelivery ==
    /\ executions <= 1 + worker_losses
    /\ wf_pc = "queued" => executions = worker_losses
    /\ wf_pc \in Executing \cup {"done", "killed"} => executions = 1 + worker_losses
    /\ worker_losses > 0 => wf_pc \in {"queued", "revoked", "killed", "done"} \cup Executing

\* A worker died mid-task and the request was executed a second time.
C18_Witness ==
    /\ wf_pc = "done"
    /\ worker_losses = 1
    /\ executions = 2
    /\ backend_result.status = "completed"

\* ================================== properties of concurrent retry_publish calls

\* The error of the last attempt of a call's own log that raised.
OwnLastError(log) ==
    LET raisedAt == {k \in 1..Len(log) : log[k].raised} IN
    IF raisedAt = {} THEN "None"
    ELSE log[CHOOSE k \in raisedAt : \A j \in raisedAt : j <= k].error

\* Whether the request carries the payload its platform's publisher reads.
OwnPayloadPresent(req) ==
    IF req.platform = "wordpress" THEN req.wordpress_data.present
    ELSE req.instagram_data.present

\* C19: each of two calls running interleaved on one publisher instance
\* returns what its own request, max_attempts and attempts give: the first
\* published response of its own log within max_attempts attempts, or after
\* exactly max_attempts attempts of its own the failed response naming
\* max_attempts and the last error its own attempts raised.
C19_CallsDoNotInterfere ==
    \A c \in Calls :
       LET log == cc_log[c]
           n == cc_max_attempts[c]
       IN cc_pc[c] = "done" =>
             /\ \A k \in 1..Len(log) :
                   /\ log[k].raised <=> ~OwnPayloadPresent(cc_request[c])
                   /\ k < Len(log) => ~ReturnedPublished(log[k])
             /\ IF Len(log) > 0 /\ ReturnedPublished(log[Len(log)])
                THEN /\ Len(log) <= n
                     /\ cc_result[c] = log[Len(log)].response
                ELSE /\ Len(log) = n
                     /\ cc_result[c].status = "failed"
                     /\ cc_result[c].platform = shared_publisher
                     /\ cc_result[c].publication_id = "failed_" \o cc_request[c].platform
                     /\ cc_result[c].error_message
                           = FailedAfterMessage(n, OwnLastError(log))

\* One call's attempts all raised, the other's all returned a failed
\* response; each failed response names its own call's last error.
C19_Witness ==
    /\ cc_pc = [c \in Calls |-> "done"]
    /\ cc_max_attempts = [c \in Calls |-> 3]
    /\ ~OwnPayloadPresent(cc_request[1])
    /\ OwnPayloadPresent(cc_request[2])
    /\ cc_result[1].error_message
          = FailedAfterMessage(3, "WordPress data is required for WordPress publishing")
    /\ cc_result[2].error_message = FailedAfterMessage(3, "None")

\* ============================================= properties of bulk submission

\* C20: when execute_bulk_workflows answers 202 for N requests, N tasks were
\* enqueued, the i-th with the i-th request's data, and the answer lists N
\* placeholders, the i-th with the i-th task's id, status pending and
\* progress 0, with total = in_progress = N, whatever parallel_execution and
\* stop_on_first_error are.
C20_BulkSubmitsEveryRequest ==
    (bulk_pc = "done" /\ bulk_response.status_code = 202) =>
       LET N == Len(bulk_request.workflows) IN
       /\ Len(task_queue) = N
       /\ \A i \in 1..N : task_queue[i].args = bulk_request.workflows[i]
       /\ \A i \in 1..N : \A j \in 1..N : i # j => task_queue[i].id # task_queue[j].id
       /\ Len(bulk_response.workflows) = N
       /\ \A i \in 1..N :
             /\ bulk_response.workflows[i].workflow_id = task_queue[i].id
             /\ bulk_response.workflows[i].status = "pending"
             /\ bulk_response.workflows[i].progress_percentage = 0
       /\ bulk_response.total = N
       /\ bulk_response.in_progress = N

\* Three requests with parallel_execution off and stop_on_first_error on.
C20_Witness ==
    /\ bulk_pc = "done"
    /\ bulk_response.status_code = 202
    /\ Len(bulk_request.workflows) = 3
    /\ ~bulk_request.parallel_execution
    /\ bulk_request.stop_on_first_error
    /\ Len(task_queue) = 3
    /\ bulk_response.total = 3

\* C37: execute_bulk_workflows is all-or-nothing toward the caller: when it
\* answers with an error because one submission failed, no workflow task of
\* that request has been enqueued; when it answers 202, every enqueued
\* task's id appears in the response.
C37_BulkAllOrNothing ==
    bulk_pc = "done" =>
       /\ bulk_response.status_code # 202 => task_queue = <<>>
       /\ bulk_response.status_code = 202 =>
             \A i \in DOMAIN task_queue :
                \E j \in DOMAIN bulk_response.workflows :
                   bulk_response.workflows[j].workflow_id = task_queue[i].id

\* =============================================== properties of the factory

Registered == {"wordpress", "instagram"}

\* The constructor of the platform's class rejects the config.
ConstructorRejects ==
    \/ fc_platform = "wordpress" /\ WordPressPublisher(fc_config).kind = "raised"
    \/ fc_platform = "instagram" /\ InstagramPublisher(fc_config).kind = "raised"

\* C22: create_publisher returns None for every platform without a registered
\* implementation (facebook, x, linkedin); for wordpress and instagram it
\* returns a publisher whose platform_type is the requested platform, and
\* when the constructor raises, the call raises that error instead of
\* returning None or a publisher.
C22_FactoryOutcome ==
    fc_result # NoFactoryCall =>
       /\ fc_platform \in {"facebook", "x", "linkedin"} => fc_result.kind = "None"
       /\ fc_platform \in Registered /\ ~ConstructorRejects =>
             fc_result.kind = "publisher" /\ fc_result.platform_type = fc_platform
       /\ ConstructorRejects =>
             fc_result.kind = "raised" /\ fc_result.error # "None"

\* A WordPress config whose url is nothing but slashes made the call raise.
C22_Witness ==
    /\ fc_platform = "wordpress"
    /\ fc_config.url = <<"/">>
    /\ fc_config.username = "secret"
    /\ fc_config.app_password = "secret"
    /\ fc_result.kind = "raised"

\* ==================================== properties of the publishing endpoints

\* The settings of the request's platform miss a credential, or hold a
\* WordPress URL that is empty once its trailing slashes are stripped.
LacksCredential ==
    \/ request.platform \notin configured
    \/ request.platform = "wordpress" /\ Rstrip(WORDPRESS_URL) = <<>>

\* C23: when the selected platform lacks a required credential, the publish
\* request is answered with an error (the endpoint rejects it, or publisher
\* construction raises) without retry_publish being entered: no publish
\* attempt, no network call, no back-off sleep.
C23_MissingCredentialFailsEarly ==
    rp_pc # "idle" /\ LacksCredential =>
       /\ rp_pc = "done"
       /\ endpoint_result.kind = "http_error"
       /\ publish_log = <<>>
       /\ sleeps = <<>>
       /\ uuid_next = 0

\* WordPress is configured with a URL of slashes only: the constructor raised
\* and the endpoint answered 500.
C23_Witness ==
    /\ rp_pc = "done"
    /\ request.platform = "wordpress"
    /\ "wordpress" \in configured
    /\ WORDPRESS_URL = <<"/">>
    /\ endpoint_result.status_code = 500
    /\ publish_log = <<>>

\* The PublicationResponses produced so far: those publish returned and the
\* one retry_publish handed to the endpoint.
ProducedResponses ==
    {publish_log[i].response : i \in {j \in DOMAIN publish_log : ~publish_log[j].raised}}
      \cup (IF endpoint_result.kind = "response" THEN {endpoint_result.response} ELSE {})

\* C24: in every PublicationResponse produced by WordPressPublisher.publish,
\* InstagramPublisher.publish or retry_publish, platform_post_id is set
\* exactly when status is published and error_message is set exactly when
\* status is failed.
C24_PostIdAndErrorMatchStatus ==
    \A r \in ProducedResponses :
       /\ (r.platform_post_id # "None") <=> (r.status = "published")
       /\ (r.error_message # "None") <=> (r.status = "failed")

\* A publisher returned failed responses until retry_publish gave up and
\* synthesized its own.
C24_Witness ==
    /\ rp_pc = "done"
    /\ endpoint_result.kind = "response"
    /\ endpoint_result.response.status = "failed"
    /\ \E i \in DOMAIN publish_log :
          ~publish_log[i].raised /\ publish_log[i].response.status = "failed"

\* C25: the PublicationResponses returned for two distinct publish requests
\* carry different publication_id values, the failed responses that
\* retry_publish synthesizes after its last attempt included.
C25_PublicationIdsDistinct ==
    cc_pc[1] = "done" /\ cc_pc[2] = "done" =>
       cc_result[1].publication_id # cc_result[2].publication_id

\* ====================================== properties of one invocation of publish

\* The request carries the payload of the publisher's platform.
MatchingPayload ==
    \/ at_publisher = "wordpress" /\ at_request.wordpress_data.present
    \/ at_publisher = "instagram" /\ at_request.instagram_data.present

\* The HTTP call of a step without which nothing is published fails: creating
\* the WordPress post, creating or publishing the Instagram media container.
FatalStepFails ==
    \/ at_publisher = "wordpress" /\ at_remote.post # "ok"
    \/ at_publisher = "instagram" /\ at_remote.container = "fail"
    \/ at_publisher = "instagram" /\ at_remote.container = "ok" /\ at_remote.publish = "fail"

\* The HTTP call of a step publish can do without fails: uploading the
\* featured image, looking up the Instagram shortcode.
OptionalStepFails ==
    \/ /\ at_publisher = "wordpress"
       /\ at_request.wordpress_data.featured_image_url # "None"
       /\ at_remote.image = "fail"
    \/ /\ at_publisher = "instagram"
       /\ at_remote.container = "ok" /\ at_remote.publish = "ok"
       /\ at_remote.shortcode = "fail"

AttemptFailedWithMessage ==
    /\ ~at_outcome.raised
    /\ at_outcome.response.status = "failed"
    /\ at_outcome.response.error_message \notin {"None", ""}

\* C26 as stated: for a request carrying the matching payload, publish never
\* raises when an HTTP call fails at any protocol step, and returns a
\* response with status failed and a non-empty error_message.
C26_AnyHttpFailureFails ==
    at_outcome # NoOutcome /\ MatchingPayload /\ (FatalStepFails \/ OptionalStepFails) =>
       AttemptFailedWithMessage

\* C26 amended: for a request carrying the matching payload, publish never
\* raises whatever HTTP call fails; it returns status failed with a non-empty
\* error_message when the failing call is the WordPress post creation or
\* the Instagram container creation or container publish, and it still
\* returns status published when only the image upload or the shortcode
\* lookup fails.
C26_FatalHttpFailureFails ==
    at_outcome # NoOutcome /\ MatchingPayload =>
       /\ ~at_outcome.raised
       /\ FatalStepFails => AttemptFailedWithMessage
       /\ ~FatalStepFails => at_outcome.response.status = "published"

\* The post creation timed out after the image upload had already failed.
C26_Witness ==
    /\ at_publisher = "wordpress"
    /\ at_request.wordpress_data.featured_image_url # "None"
    /\ at_remote.image = "fail"
    /\ at_remote.post = "exception"
    /\ at_outcome.response.status = "failed"
    /\ at_outcome.calls = <<"GET image", "POST posts">>

\* Where call c sits in the calls of the attempt, 0 if it was not made.
CallIndex(c) ==
    IF \E i \in DOMAIN at_outcome.calls : at_outcome.calls[i] = c
    THEN CHOOSE i \in DOMAIN at_outcome.calls : at_outcome.calls[i] = c
    ELSE 0

\* C30: InstagramPublisher.publish issues the container-publish call only
\* after container creation returned an id and after the grace wait; when
\* container creation fails there is no publish call and the attempt returns
\* failed; when the publish call fails the attempt returns failed and no
\* shortcode lookup is made.
C30_InstagramStepOrder ==
    at_outcome # NoOutcome /\ at_publisher = "instagram" /\ MatchingPayload =>
       /\ CallIndex("POST media_publish") # 0 =>
             /\ at_remote.container = "ok"
             /\ 0 < CallIndex("POST media")
             /\ CallIndex("POST media") < CallIndex("sleep 3")
             /\ CallIndex("sleep 3") < CallIndex("POST media_publish")
       /\ at_remote.container = "fail" =>
             /\ CallIndex("POST media_publish") = 0
             /\ at_outcome.response.status = "failed"
       /\ at_remote.container = "ok" /\ at_remote.publish = "fail" =>
             /\ at_outcome.response.status = "failed"
             /\ CallIndex("GET shortcode") = 0

\* The container was created, the publish call failed.
C30_Witness ==
    /\ at_publisher = "instagram"
    /\ at_remote.container = "ok"
    /\ at_remote.publish = "fail"
    /\ at_outcome.calls = <<"POST media", "sleep 3", "POST media_publish">>
    /\ at_outcome.response.status = "failed"

\* C31: in InstagramPublisher.publish, once the container has been published,
\* a failing shortcode lookup does not fail the attempt: the response is
\* published, platform_post_id is the media id, and platform_url is built
\* from the media id in place of the shortcode.
C31_ShortcodeFallback ==
    /\ at_outcome # NoOutcome
    /\ at_publisher = "instagram"
    /\ MatchingPayload
    /\ at_remote.container = "ok"
    /\ at_remote.publish = "ok"
    /\ at_remote.shortcode = "fail"
    => /\ ~at_outcome.raised
       /\ at_outcome.response.status = "published"
       /\ at_outcome.response.platform_post_id # "None"
       /\ at_outcome.response.platform_url =
             "https://www.instagram.com/p/" \o at_outcome.response.platform_post_id
       /\ at_outcome.response.error_message = "None"

\* The container was published and the shortcode lookup then failed.
C31_Witness ==
    /\ at_publisher = "instagram"
    /\ at_remote.shortcode = "fail"
    /\ at_outcome.calls = <<"POST media", "sleep 3", "POST media_publish", "GET shortcode">>
    /\ at_outcome.response.status = "published"
    /\ at_outcome.response.platform_url = "https://www.instagram.com/p/m1"

\* ============================================ properties of POST publish/bulk

NumPublications == Len(bulk_publish_request.publications)

\* Publication i has been taken from the list.
Processed(i) == i < bp_idx

\* retry_publish was called for publication i.
Attempted(i) == \E j \in DOMAIN retry_publish_calls : retry_publish_calls[j] = i

\* retry_publish was called for publication i and returned published.
EndedPublished(i) ==
    \E j \in DOMAIN retry_publish_calls :
       retry_publish_calls[j] = i /\ bp_results[j].status = "published"

\* Publication i names a platform whose settings are incomplete or which has
\* no registered publisher: bulk_publish logs a warning and goes on.
Skipped(i) ==
    LET p == bulk_publish_request.publications[i].platform IN
    p \notin configured \/ p \notin {"wordpress", "instagram"}

\* The publisher of publication i cannot be constructed from the settings.
ConstructionRaises(i) ==
    /\ ~Skipped(i)
    /\ bulk_publish_request.publications[i].platform = "wordpress"
    /\ Rstrip(WORDPRESS_URL) = <<>>

\* retry_publish is called for the publications in list order.
AttemptsInListOrder ==
    \A j, k \in DOMAIN retry_publish_calls :
       j < k => retry_publish_calls[j] < retry_publish_calls[k]

\* C21 as stated: bulk_publish processes the publications in list order; with
\* stop_on_first_error no publication is attempted after the first one that
\* does not end published; without it every publication of the list is
\* processed.
C21_StopsAfterFirstNotPublished ==
    /\ AttemptsInListOrder
    /\ bulk_publish_request.stop_on_first_error =>
          \A i \in 1..NumPublications :
             Processed(i) /\ ~EndedPublished(i) =>
                \A k \in 1..NumPublications : k > i => ~Attempted(k)
    /\ ~bulk_publish_request.stop_on_first_error /\ bp_pc = "done" =>
          \A i \in 1..NumPublications : Processed(i)

\* C21 amended: bulk_publish processes the publications in list order; with
\* stop_on_first_error the loop ends at the first publication whose
\* retry_publish result is not published or whose publisher cannot be
\* constructed, while a publication whose platform is not configured or not
\* registered is skipped without ending the loop; without stop_on_first_error
\* every publication is processed and retry_publish is called for each one
\* that is neither skipped nor fails construction.
C21_StopsAfterFirstFailedAttempt ==
    /\ AttemptsInListOrder
    /\ \A i \in 1..NumPublications :
          Attempted(i) => Processed(i) /\ ~Skipped(i) /\ ~ConstructionRaises(i)
    /\ bulk_publish_request.stop_on_first_error =>
          \A i \in 1..NumPublications :
             Processed(i) /\ (ConstructionRaises(i) \/ (Attempted(i) /\ ~EndedPublished(i))) =>
                /\ bp_idx = i + 1
                /\ bp_pc \in {"return", "done"}
    /\ bp_pc = "done" =>
          \A i \in 1..NumPublications :
             \/ Processed(i) /\ (Attempted(i) \/ Skipped(i) \/ ConstructionRaises(i))
             \/ /\ bulk_publish_request.stop_on_first_error
                /\ \E h \in 1..(i - 1) :
                      ConstructionRaises(h) \/ (Attempted(h) /\ ~EndedPublished(h))

\* With stop_on_first_error, the first publication was skipped, the second
\* was attempted and failed, and the third was never taken from the list.
C21_Witness ==
    /\ bp_pc = "done"
    /\ bulk_publish_request.stop_on_first_error
    /\ NumPublications = 3
    /\ Skipped(1)
    /\ retry_publish_calls = <<2>>
    /\ bp_results[1].status = "failed"
    /\ bp_idx = 3
    /\ bulk_publish_response.failed = 1

\* How many entries of results carry, or do not carry, status published.
NumPublishedResults ==
    Cardinality({j \in DOMAIN bulk_publish_response.results :
                    bulk_publish_response.results[j].status = "published"})

NumOtherResults ==
    Cardinality({j \in DOMAIN bulk_publish_response.results :
                    bulk_publish_response.results[j].status # "published"})

\* The publications taken from the list whose publisher could not be
\* constructed: they are counted as failed without an entry of results.
NumConstructionFailures ==
    Cardinality({i \in 1..NumPublications : Processed(i) /\ ConstructionRaises(i)})

\* C36: for every bulk_publish request the response satisfies
\* successful + failed <= total = number of requested publications,
\* successful equals the number of entries of results with status published,
\* every entry of results is counted in exactly one of successful or failed,
\* and publications for unconfigured or unregistered platforms are counted
\* in neither.
C36_BulkCounts ==
    bulk_publish_response.kind = "response" =>
       /\ bulk_publish_response.total = NumPublications
       /\ bulk_publish_response.successful + bulk_publish_response.failed
             <= bulk_publish_response.total
       /\ bulk_publish_response.successful = NumPublishedResults
       /\ bulk_publish_response.failed = NumOtherResults + NumConstructionFailures
       /\ bulk_publish_response.successful + bulk_publish_response.failed
             = Cardinality({i \in 1..NumPublications : Processed(i) /\ ~Skipped(i)})

\* A request of three publications: one published, one failed and one
\* skipped because its platform is not configured.
C36_Witness ==
    /\ bulk_publish_response.kind = "response"
    /\ bulk_publish_response.total = 3
    /\ bulk_publish_response.successful = 1
    /\ bulk_publish_response.failed = 1
    /\ Len(bulk_publish_response.results) = 2
    /\ \E i \in 1..3 : Processed(i) /\ Skipped(i)

\* ============================ properties of validate_credentials and GET platforms

\* The validate_credentials calls the GET platforms handler made for platform p.
HandlerCalls(p) ==
    {j \in DOMAIN validate_log :
        /\ validate_log[j].event = "validate"
        /\ validate_log[j].caller = "get_platform_status"
        /\ validate_log[j].platform = p}

\* The handler answered with exactly one entry for every registered platform.
OneEntryPerRegistered ==
    /\ Len(platform_statuses) = Cardinality(Registered)
    /\ \A p \in Registered :
          \E i \in DOMAIN platform_statuses : platform_statuses[i].platform = p

\* The WordPress settings are complete, yet the URL is empty once its
\* trailing slashes are stripped, so the publisher cannot be constructed.
SettingsRejected(p) ==
    p = "wordpress" /\ p \in configured /\ Rstrip(WORDPRESS_URL) = <<>>

\* C27 as stated: get_platform_status returns one entry per registered
\* platform; for a platform that is not configured, available is false and
\* validate_credentials is not called; for a configured platform, available
\* is the result of one live validate_credentials call.
C27_AvailableIsLiveValidation ==
    platform_statuses # <<>> =>
       /\ OneEntryPerRegistered
       /\ \A i \in DOMAIN platform_statuses :
             LET e == platform_statuses[i] IN
             /\ e.platform \notin configured =>
                   ~e.available /\ HandlerCalls(e.platform) = {}
             /\ e.platform \in configured =>
                   /\ Cardinality(HandlerCalls(e.platform)) = 1
                   /\ \A j \in HandlerCalls(e.platform) :
                         e.available = validate_log[j].result

\* C27 amended: get_platform_status returns one entry per registered
\* platform; for a platform that is not configured, and for a configured one
\* whose publisher cannot be constructed, available is false and
\* validate_credentials is not called; for a configured platform whose
\* publisher is constructed, available is the result of one live
\* validate_credentials call.
C27_AvailableIsLiveValidationIfConstructed ==
    platform_statuses # <<>> =>
       /\ OneEntryPerRegistered
       /\ \A i \in DOMAIN platform_statuses :
             LET e == platform_statuses[i] IN
             /\ e.configured = (e.platform \in configured)
             /\ e.platform \notin configured \/ SettingsRejected(e.platform) =>
                   /\ ~e.available
                   /\ HandlerCalls(e.platform) = {}
                   /\ e.error_message # "None"
             /\ e.platform \in configured /\ ~SettingsRejected(e.platform) =>
                   /\ Cardinality(HandlerCalls(e.platform)) = 1
                   /\ \A j \in HandlerCalls(e.platform) :
                         e.available = validate_log[j].result

\* Instagram is configured and its credentials are accepted, WordPress is
\* configured with a URL of slashes only: one validation call was made, for
\* Instagram.
C27_Witness ==
    /\ configured = {"wordpress", "instagram"}
    /\ WORDPRESS_URL = <<"/">>
    /\ Len(platform_statuses) = 2
    /\ platform_statuses[1].platform = "wordpress"
    /\ ~platform_statuses[1].available
    /\ platform_statuses[2].platform = "instagram"
    /\ platform_statuses[2].available
    /\ HandlerCalls("wordpress") = {}
    /\ Cardinality(HandlerCalls("instagram")) = 1

\* No remote change is logged after event j.
UnchangedSince(log, j) ==
    \A k \in DOMAIN log : k > j => log[k].event # "remote change"

IsPrefix(s, t) == Len(s) <= Len(t) /\ s = SubSeq(t, 1, Len(s))

\* The caption followed, when there are hashtags, by a blank line and the
\* '#'-prefixed hashtags joined by spaces.
CaptionThenHashtags ==
    IF hashtags = <<>> THEN caption
    ELSE caption \o <<"\n", "\n">> \o HashtagStr(hashtags)

\* C29: for every caption and hashtag list, full_caption has at most 2200
\* characters and is a prefix of the caption followed, when hashtags are
\* present, by a blank line and the '#'-prefixed hashtags joined by spaces.
C29_FullCaptionBounded ==
    full_caption_result # NoCaption =>
       /\ Len(full_caption_result) <= 2200
       /\ IsPrefix(full_caption_result, CaptionThenHashtags)

\* A caption two characters short of the limit with two hashtags: the blank
\* line just fits and every hashtag is cut off.
C29_Witness ==
    /\ Len(caption) = 2198
    /\ Len(hashtags) = 2
    /\ full_caption_result # NoCaption
    /\ Len(full_caption_result) = 2200
    /\ full_caption_result[2200] = "\n"
    /\ Len(CaptionThenHashtags) > 2200

\* ================== properties of WordPress publish with categories and tags

Taxonomies == {"categories", "tags"}

\* The names the request asks for in a taxonomy, and the ids sent for it.
Requested(t) == IF t = "categories" THEN wp_categories ELSE wp_tags
SentIds(t) == at_outcome.post_data[t]

\* How many times call c was made during the attempt.
CallCount(c) == Cardinality({i \in DOMAIN at_outcome.calls : at_outcome.calls[i] = c})

SearchCall(t, n) == "GET " \o t \o " " \o n
CreateCall(t, n) == "POST " \o t \o " " \o n

PostCreationIssuedLast ==
    /\ at_outcome.calls # <<>>
    /\ at_outcome.calls[Len(at_outcome.calls)] = "POST posts"
    /\ CallCount("POST posts") = 1

\* C32: for each requested WordPress category or tag name, when the search
\* returns at least one term no create call is issued and the found id is
\* used; when the search returns none exactly one create call is issued and
\* the id it returns is included in the post's term list.
C32_FoundOrCreatedOnce ==
    at_outcome # NoOutcome =>
       \A t \in Taxonomies : \A i \in DOMAIN Requested(t) :
          LET n == Requested(t)[i]
          IN /\ wp_terms[t][n].search = "found" =>
                   /\ CallCount(CreateCall(t, n)) = 0
                   /\ \E k \in DOMAIN SentIds(t) : SentIds(t)[k] = FoundId(t, n)
             /\ wp_terms[t][n].search = "none" =>
                   /\ CallCount(CreateCall(t, n)) = 1
                   /\ wp_terms[t][n].create = "created" =>
                         \E k \in DOMAIN SentIds(t) : SentIds(t)[k] = CreatedId(t, n)

\* One category exists and the other is created, without any other step.
C32_Witness ==
    /\ wp_categories = <<"Tech", "News">>
    /\ wp_terms.categories["Tech"].search = "found"
    /\ wp_terms.categories["News"] = [search |-> "none", create |-> "created"]
    /\ at_outcome.calls = <<"GET categories Tech", "GET categories News",
                            "POST categories News", "POST posts">>
    /\ at_outcome.post_data.categories = <<"categories:Tech", "new categories:News">>
    /\ at_outcome.response.status = "published"

\* C33: in WordPressPublisher.publish, a failure of the featured-image
\* download or upload never fails the attempt: the post-creation call is
\* still issued, without a featured_media field, and the attempt's outcome
\* depends only on the post-creation call.
C33_ImageFailureNotFatal ==
    /\ at_outcome # NoOutcome
    /\ at_request.wordpress_data.featured_image_url # "None"
    /\ at_remote.image # "ok"
    => /\ ~at_outcome.raised
       /\ PostCreationIssuedLast
       /\ at_outcome.post_data.featured_media = "None"
       /\ at_remote.post = "ok" =>
             /\ at_outcome.response.status = "published"
             /\ at_outcome.response.error_message = "None"
       /\ at_remote.post # "ok" =>
             /\ at_outcome.response.status = "failed"
             /\ at_outcome.response.error_message # "None"

\* The image was downloaded, its upload failed, and the post was created.
C33_Witness ==
    /\ at_request.wordpress_data.featured_image_url # "None"
    /\ at_remote.image = "upload_fail"
    /\ at_remote.post = "ok"
    /\ wp_categories = <<>> /\ wp_tags = <<>>
    /\ at_outcome.calls = <<"GET image", "POST media", "POST posts">>
    /\ at_outcome.post_data.featured_media = "None"
    /\ at_outcome.response.status = "published"

\* Resolving name n of taxonomy t yields an id.
Survives(t, n) ==
    \/ wp_terms[t][n].search = "found"
    \/ wp_terms[t][n] = [search |-> "none", create |-> "created"]

\* The ids of the surviving names of taxonomy t, in the request's order.
SurvivingIds(t) ==
    LET kept == SelectSeq(Requested(t), LAMBDA n : Survives(t, n))
    IN [i \in DOMAIN kept |->
           IF wp_terms[t][kept[i]].search = "found"
           THEN FoundId(t, kept[i]) ELSE CreatedId(t, kept[i])]

\* The searches of taxonomy t among the calls, in the order they were made.
SearchesMade(t) ==
    SelectSeq(at_outcome.calls,
              LAMBDA c : \E n \in TermNames[t] : c = SearchCall(t, n))

\* C34: in WordPressPublisher.publish, a failure while resolving one category
\* or tag name (search error, malformed search result or rejected create)
\* skips only that term: the remaining names are still processed in order,
\* the resolved id list keeps the request order of the surviving terms, and
\* the post-creation call is still issued.
C34_FailedTermSkipped ==
    at_outcome # NoOutcome =>
       /\ ~at_outcome.raised
       /\ PostCreationIssuedLast
       /\ \A t \in Taxonomies :
             /\ SearchesMade(t) = [i \in DOMAIN Requested(t) |->
                                      SearchCall(t, Requested(t)[i])]
             /\ SentIds(t) = SurvivingIds(t)

\* The first category's search fails, the second category is found and the
\* tag's creation is rejected.
C34_Witness ==
    /\ wp_categories = <<"Tech", "News">>
    /\ wp_tags = <<"ai">>
    /\ wp_terms.categories["Tech"].search = "error"
    /\ wp_terms.categories["News"].search = "found"
    /\ wp_terms.tags["ai"] = [search |-> "none", create |-> "rejected"]
    /\ at_outcome.post_data.categories = <<"categories:News">>
    /\ at_outcome.post_data.tags = <<>>
    /\ at_outcome.calls[Len(at_outcome.calls)] = "POST posts"
    /\ at_outcome.response.status = "published"

\* ================================== properties of the content service's tracker

\* The status of a stored task and its fields agree.
StatusFieldsAgree(t) ==
    /\ t.status = "completed" => t.progress = 100 /\ t.result # "None"
    /\ t.status = "failed" => t.progress = 0 /\ t.error # "None"

\* A stored task moves only pending -> processing -> completed or failed.
StatusMovesForward ==
    \A id \in DOMAIN tasks \cap DOMAIN tasks' :
       tasks'[id].status # tasks[id].status =>
          \/ tasks[id].status = "pending" /\ tasks'[id].status = "processing"
          \/ /\ tasks[id].status = "processing"
             /\ tasks'[id].status \in {"completed", "failed"}

\* C38: in the content service's in-memory task tracker, for every
\* interleaving of delete_task with a running _generate_article_background
\* for the same task_id, the background function finishes without an
\* unhandled exception and a deleted task is never re-inserted into the
\* store; without deletion a task moves only pending -> processing ->
\* completed or failed, with progress 100 and a result when completed and
\* progress 0 and an error when failed.
C38_TrackerSafeUnderDeletion ==
    [][/\ \A id \in TaskIds : bg_unhandled'[id] = "None"
       /\ \A id \in deleted_ids' : id \notin DOMAIN tasks'
       /\ \A id \in DOMAIN tasks' : StatusFieldsAgree(tasks'[id])
       /\ StatusMovesForward]_vars

\* ================================== properties of RateLimiter.check_rate_limit

\* C39: for one client and one endpoint, under every interleaving of
\* concurrent check_rate_limit calls against a working Redis, at most `rate`
\* requests are admitted within one period window, and the counter key
\* always carries an expiry so a limited client is admitted again after the
\* window ends.
C39_AtMostRatePerWindow ==
    /\ rl_admitted <= rl_rate
    /\ redis_key.exists => redis_key.expires

====
